---------------------------- MODULE Spec2Model ----------------------------
(***************************************************************************)
(* Model of the NER service (src/ner-service): the tag decoder and the     *)
(* entity cleaner of model/ner_model.py, the temporal resolvers of         *)
(* utils/time_processor.py and utils/vietnamese_time_processor.py, the     *)
(* recurrence processor of utils/recurring_events.py and the request path  *)
(* of server/grpc_server.py with utils/rate_limiter.py and utils/cache.py. *)
(*                                                                         *)
(* Conventions.  A Python str is a sequence of one-character strings; the  *)
(* SentencePiece word-start mark U+2581 is written "_", and a reserved     *)
(* token of the tokenizer ("<s>", "</s>", "<pad>") is one atomic symbol.   *)
(* Vietnamese letters with diacritics are one symbol each, written in      *)
(* ASCII ("o^" for o-circumflex, ...).  A confidence c in [0,1] is the     *)
(* integer c * 10 * ConfUnit, so that the halvings of the running average  *)
(* stay exact.  Python None is the record None.                            *)
(***************************************************************************)
EXTENDS Integers, Sequences, FiniteSets, TLC

VARIABLES
    \* ---- tag decoder (NERModel.extract_entities / _process_entities)
    path,            \* "single" (extract_entities) or "batch" (_process_entities)
    tokens,          \* the (token, label, confidence) triples read so far
    entities,        \* the list `entities` of the running scan
    current_entity,  \* the dict `current_entity`, or None
    dpc,             \* position of the decoder: "scan", "closed", "done", "idle"
    result           \* what the decoder returned (empty until it returns)

decodeVars == <<path, tokens, entities, current_entity, dpc, result>>

VARIABLES
    \* ---- entity cleaner called on its own (NERModel._clean_entities)
    raw,             \* the caller's list of span dicts (updated in place)
    cleaned1,        \* what the first call returned
    cleaned2,        \* what the call on that result returned
    cpc              \* "start", "once", "twice", "idle"

cleanVars == <<raw, cleaned1, cleaned2, cpc>>

VARIABLES
    \* ---- temporal resolution (TimeProcessor, VietnameseTimeProcessor)
    tm_src,          \* the date [day, month, year] the text was rendered from, or None
    tm_given,        \* the entity as it was when it was passed in
    tm_entity,       \* the caller's entity dict (updated in place)
    tm_now,          \* datetime.now(self.timezone)
    tm_out,          \* Ok(returned entity) or Raise(exception) of process_time_entity
    tm_pc,           \* "start", "done", "idle"
    vn_out,          \* Ok(datetime or None) or Raise(exception) of parse_relative_time
    vn_pc            \* "start", "done", "idle"

timeVars == <<tm_src, tm_given, tm_entity, tm_now, tm_out, tm_pc, vn_out, vn_pc>>

VARIABLES
    \* ---- the service (NERService behind the rate_limit decorator)
    sv_clock,        \* int(time.time())
    sv_redis_up,     \* FALSE while calls to Redis raise RedisError
    sv_zset,         \* the scores of the sorted set rate_limit:<client>
    sv_zexpire,      \* the second at which that key expires
    sv_store,        \* the ner_cache:* keys of Redis: a set of [key, value]
    sv_version,      \* Cache.version
    sv_model_cache,  \* NERModel.cache: a set of [text, ret]
    sv_request,      \* the last request received
    sv_status,       \* the status code its caller observed
    sv_response,     \* the response message, None when there is none
    sv_calls,        \* the calls the request made, in order
    kv_log           \* the direct calls of is_allowed, Cache.get and Cache.set

VARIABLES
    \* ---- the recurrence processor, called on its own
    rc_recurrence,   \* the descriptor handed to generate_rrule
    rc_anchor,       \* the start_date handed to generate_rrule
    rc_rule_in,      \* the rule string handed to get_next_occurrences
    rc_entity,       \* the entity handed to process_recurring_time
    rc_detected,     \* what detect_recurrence returned for its text
    rc_rules,        \* the outcomes of the runs of generate_rrule
    rc_occs,         \* the outcomes of the runs of get_next_occurrences
    rc_out           \* the outcome of process_recurring_time

recurVars == <<rc_recurrence, rc_anchor, rc_rule_in, rc_entity, rc_detected,
               rc_rules, rc_occs, rc_out>>

serviceVars == <<sv_clock, sv_redis_up, sv_zset, sv_zexpire, sv_store, sv_version,
                 sv_model_cache, sv_request, sv_status, sv_response, sv_calls,
                 kv_log>>

vars == <<decodeVars, cleanVars, timeVars, serviceVars, recurVars>>

notDecodeVars == <<cleanVars, timeVars, serviceVars, recurVars>>
notCleanVars == <<decodeVars, timeVars, serviceVars, recurVars>>
notTimeVars == <<decodeVars, cleanVars, serviceVars, recurVars>>
notServiceVars == <<decodeVars, cleanVars, timeVars, recurVars>>
notRecurVars == <<decodeVars, cleanVars, timeVars, serviceVars>>

-----------------------------------------------------------------------------
(* Bounds *)

\* longest token stream the labeling model hands to the decoder
MaxLen == 3

\* longest text of the span the cleaner is tried on
MaxTextLen == 4

\* most spans before, and after, that span in the cleaner's input list
MaxContext == 1

\* the last second of the service's clock
MaxClock == 3

\* requests per minute of the rate limiter (RATE_LIMIT)
RequestsPerMinute == 1

\* seconds of the rate limiter's window
WindowSize == 3

\* most direct calls of the rate limiter and the cache in one behaviour
MaxCalls == 4

\* most texts in one BatchExtractEntities request
MaxBatch == 2

\* runs of generate_rrule, and of get_next_occurrences, on the same input
MaxRuns == 2

-----------------------------------------------------------------------------
(* Generic helpers *)

None == [none |-> TRUE]

Range(s) == {s[i] : i \in 1..Len(s)}

RECURSIVE Pow2(_)
Pow2(n) == IF n = 0 THEN 1 ELSE 2 * Pow2(n - 1)

\* one tenth of confidence, in model units
ConfUnit == Pow2(MaxLen + 1)

Min(a, b) == IF a <= b THEN a ELSE b

\* all sequences over S of length 0..n
RECURSIVE SeqsUpTo(_, _)
SeqsUpTo(S, n) ==
    IF n = 0 THEN {<<>>}
    ELSE LET shorter == SeqsUpTo(S, n - 1)
         IN shorter \cup {Append(s, x) : s \in {t \in shorter : Len(t) = n - 1}, x \in S}

\* str.replace(ch, ''): every occurrence of the character ch removed
RECURSIVE RemoveChar(_, _)
RemoveChar(s, ch) ==
    IF s = <<>> THEN <<>>
    ELSE IF Head(s) = ch THEN RemoveChar(Tail(s), ch)
         ELSE <<Head(s)>> \o RemoveChar(Tail(s), ch)

-----------------------------------------------------------------------------
(* Tokens and labels *)

\* tokenizer.cls_token, tokenizer.sep_token, tokenizer.pad_token
SpecialTokens == {<<"<s>">>, <<"</s>">>, <<"<pad>">>}

EntityTypes == {"LOC", "TIME"}

\* id2label: "O", "B-<T>", "I-<T>"
OLabel == [tag |-> "O", type |-> ""]
Labels == {OLabel} \cup [tag : {"B", "I"}, type : EntityTypes]

\* (token text, confidence in tenths) pairs the labeling model may produce
TokenShapes == {
    [text |-> <<"_", "a">>, tenths |-> 9],
    [text |-> <<"b">>,      tenths |-> 3],
    [text |-> <<"<s>">>,    tenths |-> 9] }

Tokens == {[text |-> s.text, label |-> l, conf |-> s.tenths * ConfUnit] :
              s \in TokenShapes, l \in Labels}

IsSpecial(tok) == tok.text \in SpecialTokens

-----------------------------------------------------------------------------
(* NERModel.extract_entities: the body of the loop over the tokens         *)

\* a span opened by a B- token at index i (single-text path)
NewEntitySingle(tok, i) ==
    [text |-> RemoveChar(tok.text, "_"), type |-> tok.label.type,
     confidence |-> tok.conf, start_pos |-> i, end_pos |-> i]

\* the span `cur` extended by an I- token at index i (single-text path)
ExtendSingle(cur, tok, i) ==
    [cur EXCEPT !.text = cur.text \o RemoveChar(tok.text, "_"),
                !.end_pos = i,
                !.confidence = (cur.confidence + tok.conf) \div 2]

\* one iteration of the loop: st is [entities, current_entity], i the index
StepSingle(st, tok, i) ==
    IF tok.label # OLabel
    THEN IF IsSpecial(tok)
         THEN st
         ELSE IF tok.label.tag = "B"
              THEN [entities |-> IF st.current_entity # None
                                 THEN Append(st.entities, st.current_entity)
                                 ELSE st.entities,
                    current_entity |-> NewEntitySingle(tok, i)]
              ELSE IF tok.label.tag = "I"
                   THEN IF st.current_entity # None
                           /\ st.current_entity.type = tok.label.type
                        THEN [st EXCEPT !.current_entity =
                                  ExtendSingle(st.current_entity, tok, i)]
                        ELSE st
                   ELSE st
    ELSE IF st.current_entity # None
         THEN [entities |-> Append(st.entities, st.current_entity),
               current_entity |-> None]
         ELSE st

-----------------------------------------------------------------------------
(* NERModel._process_entities: the body of the loop over the tokens        *)

NewEntityBatch(tok, i) ==
    [text |-> tok.text, type |-> tok.label.type,
     confidence |-> tok.conf, start_pos |-> i, end_pos |-> i]

\* ExtendBatch with the index written to the wrong field
ExtendBatch_WrongField(cur, tok, i) ==
    [cur EXCEPT !.text = cur.text \o <<" ">> \o tok.text,
                !.start_pos = i,
                !.confidence = Min(cur.confidence, tok.conf)]

ExtendBatch(cur, tok, i) ==
    [cur EXCEPT !.text = cur.text \o <<" ">> \o tok.text,
                !.end_pos = i,
                !.confidence = Min(cur.confidence, tok.conf)]

\* StepBatch where an I- token that continues nothing opens a span of its own
StepBatch_OrphanOpens(st, tok, i) ==
    IF tok.label.tag = "B"
       \/ (tok.label.tag = "I"
           /\ (st.current_entity = None \/ st.current_entity.type # tok.label.type))
    THEN [entities |-> IF st.current_entity # None
                       THEN Append(st.entities, st.current_entity)
                       ELSE st.entities,
          current_entity |-> NewEntityBatch(tok, i)]
    ELSE IF tok.label.tag = "I"
         THEN [st EXCEPT !.current_entity = ExtendBatch(st.current_entity, tok, i)]
         ELSE IF tok.label = OLabel /\ st.current_entity # None
              THEN [entities |-> Append(st.entities, st.current_entity),
                    current_entity |-> None]
              ELSE st

StepBatch(st, tok, i) ==
    IF tok.label.tag = "B"
    THEN [entities |-> IF st.current_entity # None
                       THEN Append(st.entities, st.current_entity)
                       ELSE st.entities,
          current_entity |-> NewEntityBatch(tok, i)]
    ELSE IF tok.label.tag = "I" /\ st.current_entity # None
         THEN IF st.current_entity.type = tok.label.type
              THEN [st EXCEPT !.current_entity =
                        ExtendBatch(st.current_entity, tok, i)]
              ELSE st
         ELSE IF tok.label = OLabel /\ st.current_entity # None
              THEN [entities |-> Append(st.entities, st.current_entity),
                    current_entity |-> None]
              ELSE st

\* the flush after the loop, on both paths
CloseScan(st) ==
    IF st.current_entity # None
    THEN Append(st.entities, st.current_entity)
    ELSE st.entities

-----------------------------------------------------------------------------
(* NERModel._clean_entities                                                *)

\* the confidence threshold 0.5, in tenths
ThresholdTenths == 5

Threshold == ThresholdTenths * ConfUnit

Whitespace == {" "}

RECURSIVE LStrip(_)
LStrip(s) ==
    IF s # <<>> /\ Head(s) \in Whitespace THEN LStrip(Tail(s)) ELSE s

RECURSIVE RStrip(_)
RStrip(s) ==
    IF s # <<>> /\ s[Len(s)] \in Whitespace
    THEN RStrip(SubSeq(s, 1, Len(s) - 1))
    ELSE s

\* str.strip()
Strip(s) == RStrip(LStrip(s))

\* str.startswith(p)
StartsWith(s, p) == Len(s) >= Len(p) /\ SubSeq(s, 1, Len(p)) = p

\* the subword continuation marker "##"
Marker == <<"#", "#">>

\* lines 233-235: strip, then drop one leading "##"
CleanText(t) ==
    LET s == Strip(t)
    IN IF StartsWith(s, Marker) THEN SubSeq(s, Len(Marker) + 1, Len(s)) ELSE s

\* the entity dict after the loop body ran on it (it is updated in place)
CleanedEntity(e) ==
    IF e.confidence < Threshold THEN e ELSE [e EXCEPT !.text = CleanText(e.text)]

\* whether the loop body appends the entity to `cleaned`
KeptByCleaner(e) == e.confidence >= Threshold /\ CleanText(e.text) # <<>>

\* _clean_entities putting every kept entity in front of the earlier ones
RECURSIVE _clean_entities_Reversed(_)
_clean_entities_Reversed(ents) ==
    IF ents = <<>> THEN <<>>
    ELSE _clean_entities_Reversed(Tail(ents))
         \o (IF KeptByCleaner(Head(ents)) THEN <<CleanedEntity(Head(ents))>> ELSE <<>>)

\* the list `cleaned` that _clean_entities returns
RECURSIVE _clean_entities(_)
_clean_entities(ents) ==
    IF ents = <<>> THEN <<>>
    ELSE (IF KeptByCleaner(Head(ents)) THEN <<CleanedEntity(Head(ents))>> ELSE <<>>)
         \o _clean_entities(Tail(ents))

\* the caller's list after the call: the same dicts, updated in place
MutatedInput(ents) == [i \in 1..Len(ents) |-> CleanedEntity(ents[i])]

-----------------------------------------------------------------------------
(* The decoder as a state machine: the labeling model's output is read one *)
(* token per step; the stream may end after any token.                     *)

DecodeIdle ==
    /\ path = "none"
    /\ tokens = <<>>
    /\ entities = <<>>
    /\ current_entity = None
    /\ dpc = "idle"
    /\ result = <<>>

DecodeInit ==
    /\ path \in {"single", "batch"}
    /\ tokens = <<>>
    /\ entities = <<>>
    /\ current_entity = None
    /\ dpc = "scan"
    /\ result = <<>>

ScanState == [entities |-> entities, current_entity |-> current_entity]

\* extract_entities, lines 70-103: one iteration (idx is 0-based)
SingleStep ==
    /\ dpc = "scan" /\ path = "single" /\ Len(tokens) < MaxLen
    /\ \E tok \in Tokens :
         LET st == StepSingle(ScanState, tok, Len(tokens))
         IN /\ tokens' = Append(tokens, tok)
            /\ entities' = st.entities
            /\ current_entity' = st.current_entity
    /\ UNCHANGED <<path, dpc, result>>
    /\ UNCHANGED notDecodeVars

\* extract_entities, lines 105-114: flush the open span and return
SingleClose ==
    /\ dpc = "scan" /\ path = "single"
    /\ entities' = CloseScan(ScanState)
    /\ result' = CloseScan(ScanState)
    /\ dpc' = "done"
    /\ UNCHANGED <<path, tokens, current_entity>>
    /\ UNCHANGED notDecodeVars

\* _process_entities, lines 187-205: one iteration
BatchStep ==
    /\ dpc = "scan" /\ path = "batch" /\ Len(tokens) < MaxLen
    /\ \E tok \in Tokens :
         LET st == StepBatch(ScanState, tok, Len(tokens))
         IN /\ tokens' = Append(tokens, tok)
            /\ entities' = st.entities
            /\ current_entity' = st.current_entity
    /\ UNCHANGED <<path, dpc, result>>
    /\ UNCHANGED notDecodeVars

\* _process_entities, lines 207-208: flush the open span
BatchClose ==
    /\ dpc = "scan" /\ path = "batch"
    /\ entities' = CloseScan(ScanState)
    /\ dpc' = "closed"
    /\ UNCHANGED <<path, tokens, current_entity, result>>
    /\ UNCHANGED notDecodeVars

\* _process_entities, lines 210-213: clean and return
BatchClean ==
    /\ dpc = "closed" /\ path = "batch"
    /\ result' = _clean_entities(entities)
    /\ entities' = MutatedInput(entities)
    /\ dpc' = "done"
    /\ UNCHANGED <<path, tokens, current_entity>>
    /\ UNCHANGED notDecodeVars

DecodeNext ==
    \/ SingleStep
    \/ SingleClose
    \/ BatchStep
    \/ BatchClose
    \/ BatchClean

-----------------------------------------------------------------------------
(* The cleaner called on a list of spans, and again on what it returned    *)

CleanIdle ==
    /\ raw = <<>>
    /\ cleaned1 = <<>>
    /\ cleaned2 = <<>>
    /\ cpc = "idle"

CleanChars == {"#", " ", "a"}

\* the span the cleaner is tried on: any text, below or above the threshold
FreeSpans ==
    [text : SeqsUpTo(CleanChars, MaxTextLen), type : {"LOC"},
     confidence : {3 * ConfUnit, 9 * ConfUnit}, start_pos : {0}, end_pos : {0}]

\* the spans around it: one the cleaner keeps as it is, one it drops, one
\* whose text it rewrites
ContextSpans ==
    [text : {<<"a">>, <<" ">>, <<"#", "#", "a">>}, type : {"TIME"},
     confidence : {9 * ConfUnit}, start_pos : {0}, end_pos : {0}]

\* start_pos = end_pos = the index in the list: the spans of a list differ
Numbered(l) == [i \in 1..Len(l) |-> [l[i] EXCEPT !.start_pos = i - 1, !.end_pos = i - 1]]

SpanLists ==
    LET ctx == SeqsUpTo(ContextSpans, MaxContext)
    IN {Numbered(pre \o post) : pre \in ctx, post \in ctx}
       \cup {Numbered(pre \o <<e>> \o post) : pre \in ctx, e \in FreeSpans, post \in ctx}

CleanInit ==
    /\ raw \in SpanLists
    /\ cleaned1 = <<>>
    /\ cleaned2 = <<>>
    /\ cpc = "start"

\* _clean_entities(raw)
CleanOnce ==
    /\ cpc = "start"
    /\ cleaned1' = _clean_entities(raw)
    /\ raw' = MutatedInput(raw)
    /\ cpc' = "once"
    /\ UNCHANGED cleaned2
    /\ UNCHANGED notCleanVars

\* _clean_entities(cleaned1): the dicts of cleaned1 are those of raw
CleanTwice ==
    /\ cpc = "once"
    /\ cleaned2' = _clean_entities(cleaned1)
    /\ raw' = MutatedInput(raw)
    /\ cpc' = "twice"
    /\ UNCHANGED cleaned1
    /\ UNCHANGED notCleanVars

CleanNext ==
    \/ CleanOnce
    \/ CleanTwice

-----------------------------------------------------------------------------
(* Python values: exceptions, dicts with optional keys, datetimes          *)

\* a call that returned v, and a call that raised the exception e
Ok(v) == [exc |-> "none", value |-> v]
Raise(e) == [exc |-> e, value |-> None]

\* key in dict, and dict.update({key: v})
HasKey(d, key) == key \in DOMAIN d
Update(d, key, v) == (key :> v) @@ d

IsLeap(y) == (y % 4 = 0 /\ y % 100 # 0) \/ y % 400 = 0

DaysInMonth(y, m) ==
    IF m \in {1, 3, 5, 7, 8, 10, 12} THEN 31
    ELSE IF m = 2 THEN (IF IsLeap(y) THEN 29 ELSE 28)
    ELSE 30

\* datetime's own check of year, month, day
ValidDate(y, m, d) ==
    /\ y \in 1..9999
    /\ m \in 1..12
    /\ d \in 1..DaysInMonth(y, m)

\* a datetime: wall-clock fields and tzinfo ("config" = the configured
\* timezone Asia/Ho_Chi_Minh, "naive" = tzinfo None)
DateTime(y, m, d, hh, mm, tz) ==
    [year |-> y, month |-> m, day |-> d, hour |-> hh, minute |-> mm, tzinfo |-> tz]

NextDay(dt) ==
    IF dt.day < DaysInMonth(dt.year, dt.month) THEN [dt EXCEPT !.day = dt.day + 1]
    ELSE IF dt.month < 12 THEN [dt EXCEPT !.day = 1, !.month = dt.month + 1]
    ELSE [dt EXCEPT !.day = 1, !.month = 1, !.year = dt.year + 1]

PrevDay(dt) ==
    IF dt.day > 1 THEN [dt EXCEPT !.day = dt.day - 1]
    ELSE IF dt.month > 1
         THEN [dt EXCEPT !.day = DaysInMonth(dt.year, dt.month - 1),
                         !.month = dt.month - 1]
         ELSE [dt EXCEPT !.day = 31, !.month = 12, !.year = dt.year - 1]

\* dt + timedelta(days=n)
RECURSIVE AddDays(_, _)
AddDays(dt, n) ==
    IF n = 0 THEN dt
    ELSE IF n > 0 THEN AddDays(NextDay(dt), n - 1)
    ELSE AddDays(PrevDay(dt), n + 1)

\* dt.replace(hour=hh, minute=mm): ValueError when out of range
ReplaceTime(dt, hh, mm) ==
    IF hh \in 0..23 /\ mm \in 0..59
    THEN Ok([dt EXCEPT !.hour = hh, !.minute = mm])
    ELSE Raise("ValueError")

\* dt.replace(year=y, month=m, day=d): ValueError when no such date
ReplaceDate(dt, y, m, d) ==
    IF ValidDate(y, m, d)
    THEN Ok([dt EXCEPT !.year = y, !.month = m, !.day = d])
    ELSE Raise("ValueError")

\* dt.replace(year=y, month=m): the day is kept
ReplaceYearMonth(dt, y, m) == ReplaceDate(dt, y, m, dt.day)

\* the UTC offset isoformat() writes: the configured zone is UTC+7, a naive
\* datetime has none, the platform's zone (tzlocal) has the platform's
UtcOffset(tz) ==
    IF tz = "config" THEN "+07:00"
    ELSE IF tz = "utc" THEN "+00:00"
    ELSE IF tz = "local" THEN "platform"
    ELSE ""

\* datetime.isoformat(): date, time and offset, the zone's name is lost
IsoFormat(dt) ==
    [date |-> <<dt.year, dt.month, dt.day>>, time |-> <<dt.hour, dt.minute>>,
     offset |-> UtcOffset(dt.tzinfo)]

\* int(datetime.timestamp()): the instant, whatever the zone it is written in
Timestamp(dt) == [instant |-> IsoFormat(dt)]

-----------------------------------------------------------------------------
(* Text helpers: characters, digits, the `re` searches of the patterns     *)

DigitChars == {"0", "1", "2", "3", "4", "5", "6", "7", "8", "9"}

IsDigit(c) == c \in DigitChars

DigitVal(c) ==
    CASE c = "0" -> 0 [] c = "1" -> 1 [] c = "2" -> 2 [] c = "3" -> 3
      [] c = "4" -> 4 [] c = "5" -> 5 [] c = "6" -> 6 [] c = "7" -> 7
      [] c = "8" -> 8 [] c = "9" -> 9

DigitChar(n) ==
    CASE n = 0 -> "0" [] n = 1 -> "1" [] n = 2 -> "2" [] n = 3 -> "3"
      [] n = 4 -> "4" [] n = 5 -> "5" [] n = 6 -> "6" [] n = 7 -> "7"
      [] n = 8 -> "8" [] n = 9 -> "9"

\* int(s) of a run of digits
RECURSIVE ToInt(_)
ToInt(s) ==
    IF s = <<>> THEN 0
    ELSE 10 * ToInt(SubSeq(s, 1, Len(s) - 1)) + DigitVal(s[Len(s)])

\* str(n), n >= 0
RECURSIVE ToStr(_)
ToStr(n) ==
    IF n < 10 THEN <<DigitChar(n)>>
    ELSE ToStr(n \div 10) \o <<DigitChar(n % 10)>>

\* n written with at least w digits
RECURSIVE ZeroPad(_, _)
ZeroPad(s, w) == IF Len(s) >= w THEN s ELSE ZeroPad(<<"0">> \o s, w)

\* str.lower() on the letters the texts use in upper case
LowerChar(c) ==
    CASE c = "H" -> "h" [] c = "N" -> "n" [] c = "T" -> "t" [] OTHER -> c

Lower(t) == [i \in 1..Len(t) |-> LowerChar(t[i])]

\* `sub in text`, and re.search of a literal
Contains(t, sub) ==
    \E i \in 1..(Len(t) - Len(sub) + 1) : SubSeq(t, i, i + Len(sub) - 1) = sub

\* the longest run of at most n digits of t that starts at position p
RECURSIVE DigitRun(_, _, _)
DigitRun(t, p, n) ==
    IF n > 0 /\ p <= Len(t) /\ IsDigit(t[p])
    THEN <<t[p]>> \o DigitRun(t, p + 1, n - 1)
    ELSE <<>>

NoMatch == [matched |-> FALSE, g1 |-> <<>>, g2 |-> <<>>, g3 |-> <<>>]

\* \d{1,2} followed by one character of `after`, at position p: the digits
\* (two are tried before one), or <<>> when neither fits
LeadDigits(t, p, after) ==
    IF Len(DigitRun(t, p, 2)) = 2 /\ p + 2 <= Len(t) /\ t[p + 2] \in after
    THEN DigitRun(t, p, 2)
    ELSE IF Len(DigitRun(t, p, 1)) = 1 /\ p + 1 <= Len(t) /\ t[p + 1] \in after
         THEN DigitRun(t, p, 1)
         ELSE <<>>

-----------------------------------------------------------------------------
(* TimeProcessor (utils/time_processor.py)                                 *)

\* the literals of time_patterns, in Telex spelling
KwToday    == {<<"h", "oo", "m", " ", "n", "a", "y">>,
               <<"n", "g", "af", "y", " ", "n", "af", "y">>}
KwTomorrow == {<<"n", "g", "af", "y", " ", "m", "a", "i">>,
               <<"h", "oo", "m", " ", "s", "a", "u">>}
KwNextWeek == {<<"t", "u", "aaf", "n", " ", "s", "a", "u">>,
               <<"t", "u", "aaf", "n", " ", "t", "ows", "i">>}
KwNextMonth == {<<"t", "h", "as", "n", "g", " ", "s", "a", "u">>,
                <<"t", "h", "as", "n", "g", " ", "t", "ows", "i">>}

\* re.search of an alternation of literals
SearchAny(kws, t) == \E kw \in kws : Contains(t, kw)

\* the character class [h:gi<o-horn-grave>] of day_time
DayTimeSep == {"h", ":", "g", "i", "owf"}

\* day_time, (\d{1,2})[h:gio](\d{0,2}), tried at position p
DayTimeAt(t, p) ==
    LET g1 == LeadDigits(t, p, DayTimeSep)
    IN IF g1 = <<>> THEN NoMatch
       ELSE [matched |-> TRUE, g1 |-> g1,
             g2 |-> DigitRun(t, p + Len(g1) + 1, 2), g3 |-> <<>>]

\* re.search of day_time: the match at the least position from p on
RECURSIVE SearchDayTime(_, _)
SearchDayTime(t, p) ==
    IF p > Len(t) THEN NoMatch
    ELSE IF DayTimeAt(t, p).matched THEN DayTimeAt(t, p)
         ELSE SearchDayTime(t, p + 1)

\* the year group with its alternatives in the other order, (\d{2}|\d{4})
YearGroup_TwoFirst(t, p) ==
    IF Len(DigitRun(t, p, 2)) = 2 THEN DigitRun(t, p, 2) ELSE <<>>

\* the year group (\d{4}|\d{2}) at position p: four digits before two
YearGroup(t, p) ==
    IF Len(DigitRun(t, p, 4)) = 4 THEN DigitRun(t, p, 4)
    ELSE IF Len(DigitRun(t, p, 2)) = 2 THEN DigitRun(t, p, 2)
    ELSE <<>>

\* date_time, (\d{1,2})/(\d{1,2})(?:/(\d{4}|\d{2}))?, tried at position p
DateTimeAt(t, p) ==
    LET g1 == LeadDigits(t, p, {"/"})
        q  == p + Len(g1) + 1
        g2 == DigitRun(t, q, 2)
        r  == q + Len(g2)
    IN IF g1 = <<>> \/ g2 = <<>> THEN NoMatch
       ELSE [matched |-> TRUE, g1 |-> g1, g2 |-> g2,
             g3 |-> IF r <= Len(t) /\ t[r] = "/" THEN YearGroup(t, r + 1) ELSE <<>>]

\* re.search of date_time: the match at the least position from p on
RECURSIVE SearchDateTime(_, _)
SearchDateTime(t, p) ==
    IF p > Len(t) THEN NoMatch
    ELSE IF DateTimeAt(t, p).matched THEN DateTimeAt(t, p)
         ELSE SearchDateTime(t, p + 1)

\* what dateutil's parser.parse(text, fuzzy=True) can do with a text: raise
\* ParserError (a ValueError), or return a datetime without tzinfo, with the
\* zone the text names ("utc" stands for any zone or offset written in the
\* text), or with tzlocal() when the text names the platform's own zone
FuzzyOutcomes == {"ValueError", "naive", "utc", "local"}

\* the datetime a successful fuzzy parse returns (its fields are the parser's)
FuzzyParsed(now, outcome) ==
    DateTime(now.year, 1, 1, 0, 0, outcome)

\* the chain of lines 41-73 with the clock time tried before the keywords
NormalizedTime_ClockFirst(text, now, fuzzy) ==
    IF SearchDayTime(text, 1).matched
    THEN LET match == SearchDayTime(text, 1)
             hour == ToInt(match.g1)
             minute == IF match.g2 # <<>> THEN ToInt(match.g2) ELSE 0
         IN ReplaceTime(now, hour, minute)
    ELSE IF SearchAny(KwToday, text) THEN Ok(now)
    ELSE IF SearchAny(KwTomorrow, text) THEN Ok(AddDays(now, 1))
    ELSE IF SearchAny(KwNextWeek, text) THEN Ok(AddDays(now, 7))
    ELSE IF SearchAny(KwNextMonth, text) THEN Ok(AddDays(now, 30))
    ELSE IF SearchDateTime(text, 1).matched
         THEN LET match == SearchDateTime(text, 1)
                  day == ToInt(match.g1)
                  month == ToInt(match.g2)
                  y0 == IF match.g3 # <<>> THEN ToInt(match.g3) ELSE now.year
                  year == IF y0 < 100 THEN y0 + 2000 ELSE y0
              IN ReplaceDate(now, year, month, day)
    ELSE IF fuzzy = "ValueError" THEN Raise("ValueError")
         ELSE LET parsed == FuzzyParsed(now, fuzzy)
              IN Ok(IF parsed.tzinfo = "naive"
                    THEN [parsed EXCEPT !.tzinfo = "config"]
                    ELSE parsed)

\* lines 41-73: the datetime of the first pattern that matches, or the raise
NormalizedTime(text, now, fuzzy) ==
    IF SearchAny(KwToday, text) THEN Ok(now)
    ELSE IF SearchAny(KwTomorrow, text) THEN Ok(AddDays(now, 1))
    ELSE IF SearchAny(KwNextWeek, text) THEN Ok(AddDays(now, 7))
    ELSE IF SearchAny(KwNextMonth, text) THEN Ok(AddDays(now, 30))
    ELSE IF SearchDayTime(text, 1).matched
         THEN LET match == SearchDayTime(text, 1)
                  hour == ToInt(match.g1)
                  minute == IF match.g2 # <<>> THEN ToInt(match.g2) ELSE 0
              IN ReplaceTime(now, hour, minute)
    ELSE IF SearchDateTime(text, 1).matched
         THEN LET match == SearchDateTime(text, 1)
                  day == ToInt(match.g1)
                  month == ToInt(match.g2)
                  y0 == IF match.g3 # <<>> THEN ToInt(match.g3) ELSE now.year
                  year == IF y0 < 100 THEN y0 + 2000 ELSE y0
              IN ReplaceDate(now, year, month, day)
    ELSE IF fuzzy = "ValueError" THEN Raise("ValueError")
         ELSE LET parsed == FuzzyParsed(now, fuzzy)
              IN Ok(IF parsed.tzinfo = "naive"
                    THEN [parsed EXCEPT !.tzinfo = "config"]
                    ELSE parsed)

\* TimeProcessor.process_time_entity(entity), with datetime.now(self.timezone)
\* = now and the fuzzy parser's behaviour = fuzzy
process_time_entity(entity, now, fuzzy) ==
    IF entity.type \notin {"TIME", "DATE"} THEN Ok(entity)
    ELSE LET nt == NormalizedTime(Lower(entity.text), now, fuzzy)
         IN IF nt.exc = "none"
            THEN Ok(Update(Update(entity, "normalized_time", IsoFormat(nt.value)),
                           "timestamp", Timestamp(nt.value)))
            ELSE IF nt.exc \in {"ValueError", "AttributeError"}
                 THEN Ok(entity)
                 ELSE Raise(nt.exc)

-----------------------------------------------------------------------------
(* VietnameseTimeProcessor.parse_relative_time                             *)

\* relative_days, in the order of the dict
RelativeDays == <<
    [expr |-> <<"h", "oo", "m", " ", "n", "a", "y">>,       days |-> 0],
    [expr |-> <<"n", "g", "af", "y", " ", "m", "a", "i">>,  days |-> 1],
    [expr |-> <<"n", "g", "af", "y", " ", "k", "i", "a">>,  days |-> 2],
    [expr |-> <<"n", "g", "af", "y", " ", "m", "oos", "t">>, days |-> 2],
    [expr |-> <<"h", "oo", "m", " ", "q", "u", "a">>,       days |-> 0 - 1],
    [expr |-> <<"h", "oo", "m", " ", "k", "i", "a">>,       days |-> 0 - 2] >>

\* the first entry of relative_days, from index k on, whose expr is in text
RECURSIVE FirstRelative(_, _)
FirstRelative(text, k) ==
    IF k > Len(RelativeDays) THEN 0
    ELSE IF Contains(text, RelativeDays[k].expr) THEN k
         ELSE FirstRelative(text, k + 1)

\* parse_relative_time(text), with datetime.now() = now (no tzinfo)
parse_relative_time(text0, now) ==
    LET text == Lower(text0)
        k == FirstRelative(text, 1)
    IN IF k # 0 THEN Ok(AddDays(now, RelativeDays[k].days))
       ELSE IF SearchAny(KwNextWeek, text) THEN Ok(AddDays(now, 7))
       ELSE IF SearchAny(KwNextMonth, text)
            THEN IF now.month = 12
                 THEN ReplaceYearMonth(now, now.year + 1, 1)
                 ELSE ReplaceYearMonth(now, now.year, now.month + 1)
            ELSE Ok(None)

-----------------------------------------------------------------------------
(* Temporal resolution of one entity against one reference instant         *)

TimeIdle ==
    /\ tm_src = None
    /\ tm_given = None
    /\ tm_entity = None
    /\ tm_now = None
    /\ tm_out = None
    /\ tm_pc = "idle"
    /\ vn_out = None
    /\ vn_pc = "idle"

\* years of the rendered dates: a leap year, a century that is no leap year,
\* the least and the greatest four-digit year
RenderYears == {1000, 1900, 2024, 9999}

\* the text D/M/YYYY of a date (strftime "%d/%m/%Y" when padded)
RenderDate(d, m, y, padded) ==
    LET w == IF padded THEN 2 ELSE 1
    IN ZeroPad(ToStr(d), w) \o <<"/">> \o ZeroPad(ToStr(m), w) \o <<"/">>
         \o ZeroPad(ToStr(y), 4)

\* other entity texts: relative keywords, clock times, short dates, texts no
\* pattern matches, and texts that match several patterns
OtherTexts == {
    <<"h", "oo", "m", " ", "n", "a", "y">>,
    <<"H", "oo", "m", " ", "n", "a", "y">>,
    <<"n", "g", "af", "y", " ", "m", "a", "i">>,
    <<"h", "oo", "m", " ", "q", "u", "a">>,
    <<"t", "u", "aaf", "n", " ", "s", "a", "u">>,
    <<"t", "h", "as", "n", "g", " ", "s", "a", "u">>,
    <<"t", "h", "as", "n", "g", " ", "t", "ows", "i">>,
    <<"1", "5", "h", "3", "0">>,
    <<"9", "h">>,
    <<"2", "5", "h", "0", "0">>,
    <<"9", ":", "6", "1">>,
    <<"1", "4", "h", "3", "0", " ", "n", "g", "af", "y", " ", "m", "a", "i">>,
    <<"9", "h", " ", "2", "5", "/", "1", "2", "/", "2", "0", "2", "3">>,
    <<"2", "5", "/", "1", "2", "/", "2", "3">>,
    <<"2", "5", "/", "1", "2">>,
    <<"3", "1", "/", "2">>,
    <<"h", "oo", "m", " ", "n", "a", "y", " ", "2", "5", "/", "1", "2", "/", "2", "0", "2", "3">>,
    <<"2", "5", "/", "1", "2", " ", "9", "h", "3", "0">>,
    <<"n", "g", "af", "y", " ", "m", "a", "i", " ", "h", "oo", "m", " ", "n", "a", "y">>,
    <<"q", "w", "e", "r", "t", "y", "1", "2", "3">>,
    <<"m", "oox", "i", " ", "t", "u", "aaf", "n">> }

\* datetime.now(): a first of January at midnight, ends of months, a leap day
Nows == {
    DateTime(2024, 1, 1, 0, 0, "config"),
    DateTime(2024, 1, 31, 10, 30, "config"),
    DateTime(2023, 12, 31, 23, 59, "config"),
    DateTime(2024, 2, 29, 10, 30, "config"),
    DateTime(2023, 3, 31, 10, 30, "config") }

\* an entity as the cleaner returns it
TimeEntity(text, type) ==
    [text |-> text, type |-> type, confidence |-> 9 * ConfUnit,
     start_pos |-> 0, end_pos |-> 0]

TimeInit ==
    /\ tm_now \in Nows
    /\ \/ \E d \in 1..31, m \in 1..12, y \in RenderYears, padded \in BOOLEAN :
            /\ tm_src = [day |-> d, month |-> m, year |-> y]
            /\ tm_given = TimeEntity(RenderDate(d, m, y, padded), "DATE")
       \/ \E text \in OtherTexts, type \in {"DATE", "TIME", "LOC"} :
            /\ tm_src = None
            /\ tm_given = TimeEntity(text, type)
    /\ tm_entity = tm_given
    /\ tm_out = None
    /\ tm_pc = "start"
    /\ vn_out = None
    /\ vn_pc = "start"

\* TimeProcessor.process_time_entity(tm_entity): the dict is updated in place
ProcessTimeEntity ==
    /\ tm_pc = "start"
    /\ \E fuzzy \in FuzzyOutcomes :
         LET out == process_time_entity(tm_entity, tm_now, fuzzy)
         IN /\ tm_out' = out
            /\ tm_entity' = IF out.exc = "none" THEN out.value ELSE tm_entity
    /\ tm_pc' = "done"
    /\ UNCHANGED <<tm_src, tm_given, tm_now, vn_out, vn_pc>>
    /\ UNCHANGED notTimeVars

\* VietnameseTimeProcessor.parse_relative_time(text), datetime.now() naive
ParseRelativeTime ==
    /\ vn_pc = "start"
    /\ vn_out' = parse_relative_time(tm_given.text, [tm_now EXCEPT !.tzinfo = "naive"])
    /\ vn_pc' = "done"
    /\ UNCHANGED <<tm_src, tm_given, tm_entity, tm_now, tm_out, tm_pc>>
    /\ UNCHANGED notTimeVars

TimeNext ==
    \/ ProcessTimeEntity
    \/ ParseRelativeTime

-----------------------------------------------------------------------------
(* RecurringEventProcessor (utils/recurring_events.py)                     *)

\* \s+ at position p: the position after the run of whitespace, 0 if none
RECURSIVE SkipSpaces(_, _)
SkipSpaces(t, p) ==
    IF p <= Len(t) /\ t[p] \in Whitespace
    THEN (IF p + 1 <= Len(t) /\ t[p + 1] \in Whitespace
          THEN SkipSpaces(t, p + 1) ELSE p + 1)
    ELSE 0

\* re.search of <first> \s+ <second>, first one of the literals `firsts`
SearchSpaced(firsts, second, t) ==
    \E f \in firsts : \E i \in 1..Len(t) :
        /\ i + Len(f) - 1 <= Len(t)
        /\ SubSeq(t, i, i + Len(f) - 1) = f
        /\ LET q == SkipSpaces(t, i + Len(f))
           IN q # 0 /\ q + Len(second) - 1 <= Len(t)
              /\ SubSeq(t, q, q + Len(second) - 1) = second

\* (moi|hang), in Telex spelling
Every == {<<"m", "oox", "i">>, <<"h", "af", "n", "g">>}

\* recurring_patterns, in the order of the dict
RecurringPatterns == <<
    [type |-> "daily",   unit |-> <<"n", "g", "af", "y">>,        freq |-> "DAILY"],
    [type |-> "weekly",  unit |-> <<"t", "u", "aaf", "n">>,       freq |-> "WEEKLY"],
    [type |-> "monthly", unit |-> <<"t", "h", "as", "n", "g">>,   freq |-> "MONTHLY"],
    [type |-> "yearly",  unit |-> <<"n", "aw", "m">>,             freq |-> "YEARLY"] >>

\* weekday_patterns, in the order of the dict: thu\s+<name> or the English name
WeekdayPatterns == <<
    [weekday |-> "monday",    first |-> <<"t", "h", "uws">>, name |-> <<"h", "a", "i">>,
     english |-> <<"m", "o", "n", "d", "a", "y">>],
    [weekday |-> "tuesday",   first |-> <<"t", "h", "uws">>, name |-> <<"b", "a">>,
     english |-> <<"t", "u", "e", "s", "d", "a", "y">>],
    [weekday |-> "wednesday", first |-> <<"t", "h", "uws">>, name |-> <<"t", "uw">>,
     english |-> <<"w", "e", "d", "n", "e", "s", "d", "a", "y">>],
    [weekday |-> "thursday",  first |-> <<"t", "h", "uws">>, name |-> <<"n", "aw", "m">>,
     english |-> <<"t", "h", "u", "r", "s", "d", "a", "y">>],
    [weekday |-> "friday",    first |-> <<"t", "h", "uws">>, name |-> <<"s", "as", "u">>,
     english |-> <<"f", "r", "i", "d", "a", "y">>],
    [weekday |-> "saturday",  first |-> <<"t", "h", "uws">>, name |-> <<"b", "ar", "y">>,
     english |-> <<"s", "a", "t", "u", "r", "d", "a", "y">>],
    [weekday |-> "sunday",    first |-> <<"c", "h", "ur">>, name |-> <<"n", "h", "aaj", "t">>,
     english |-> <<"s", "u", "n", "d", "a", "y">>] >>

WeekdayMatches(k, t) ==
    \/ SearchSpaced({WeekdayPatterns[k].first}, WeekdayPatterns[k].name, t)
    \/ Contains(t, WeekdayPatterns[k].english)

\* lines 53-55: the loop assigns recurrence["weekday"] at every match, so the
\* last weekday of the dict that matches stays; 0 when none matches
LastWeekday(t) ==
    LET hits == {k \in 1..Len(WeekdayPatterns) : WeekdayMatches(k, t)}
    IN IF hits = {} THEN 0 ELSE CHOOSE k \in hits : \A j \in hits : j <= k

\* the last frequency of recurring_patterns, from index k on, that matches
FirstFrequency_Last(t, k) ==
    LET hits == {j \in k..Len(RecurringPatterns) :
                    SearchSpaced(Every, RecurringPatterns[j].unit, t)}
    IN IF hits = {} THEN 0 ELSE CHOOSE j \in hits : \A i \in hits : i <= j

\* the first frequency of recurring_patterns, from index k on, that matches
RECURSIVE FirstFrequency(_, _)
FirstFrequency(t, k) ==
    IF k > Len(RecurringPatterns) THEN 0
    ELSE IF SearchSpaced(Every, RecurringPatterns[k].unit, t) THEN k
         ELSE FirstFrequency(t, k + 1)

\* detect_recurrence(text): the recurrence dict, or None
detect_recurrence(text0) ==
    LET Found(k, w) ==
            IF k = 0 THEN None
            ELSE IF w = 0
            THEN [type |-> RecurringPatterns[k].type,
                  frequency |-> RecurringPatterns[k].freq]
            ELSE [type |-> RecurringPatterns[k].type,
                  frequency |-> RecurringPatterns[k].freq,
                  weekday |-> WeekdayPatterns[w].weekday]
        In(text) == Found(FirstFrequency(text, 1), LastWeekday(text))
    IN In(Lower(text0))

\* the except clause of generate_rrule and get_next_occurrences, lines 88-90
\* and 107-109: it starts with logger.error(...), and recurring_events.py
\* neither imports nor defines `logger`, so the clause itself raises
\* NameError and its return statement is never reached
ExceptLogger(e) == Raise("NameError")

\* getattr(rrule, name) and rrule.<name>, `rrule` being the class imported at
\* line 4: the class has no weekday constants (MO..SU are names of the module
\* dateutil.rrule) and no rrulestr (a function of the module)
RruleClassAttr(name) == Raise("AttributeError")

\* rule._str() of an rrule object: it has __str__ and no method _str
RuleStr(rule) == Raise("AttributeError")

\* str.upper() of a weekday name
WeekdayUpper(w) ==
    CASE w = "monday" -> "MONDAY" [] w = "tuesday" -> "TUESDAY"
      [] w = "wednesday" -> "WEDNESDAY" [] w = "thursday" -> "THURSDAY"
      [] w = "friday" -> "FRIDAY" [] w = "saturday" -> "SATURDAY"
      [] OTHER -> "SUNDAY"

\* self.timezone.localize(start_date) when start_date has no tzinfo
Localized(start_date) ==
    IF start_date.tzinfo = "naive" THEN [start_date EXCEPT !.tzinfo = "config"]
    ELSE start_date

\* generate_rrule(recurrence, start_date), lines 73-86 inside the try
GenerateRruleTry(recurrence, start_date) ==
    LET WithWeekday(byweekday) ==
            IF byweekday.exc # "none" THEN byweekday
            ELSE RuleStr([freq |-> recurrence.frequency,
                          dtstart |-> Localized(start_date),
                          byweekday |-> byweekday.value])
    IN IF ~HasKey(recurrence, "frequency") THEN Raise("KeyError")
       ELSE IF HasKey(recurrence, "weekday")
       THEN WithWeekday(RruleClassAttr(WeekdayUpper(recurrence.weekday)))
       ELSE RuleStr([freq |-> recurrence.frequency,
                     dtstart |-> Localized(start_date)])

\* generate_rrule(recurrence, start_date)
generate_rrule(recurrence, start_date) ==
    LET Tried(t) == IF t.exc = "none" THEN t ELSE ExceptLogger(t.exc)
    IN Tried(GenerateRruleTry(recurrence, start_date))

\* get_next_occurrences(rrule_str, count): line 104 looks rrulestr up on the
\* class before anything is enumerated
get_next_occurrences(rrule_str, count) ==
    LET Tried(t) == IF t.exc = "none" THEN t ELSE ExceptLogger(t.exc)
    IN Tried(RruleClassAttr("rrulestr"))

\* the default of the parameter count
DefaultCount == 5

\* datetime.fromisoformat(isoformat string)
FromIsoFormat(iso) ==
    DateTime(iso.date[1], iso.date[2], iso.date[3], iso.time[1], iso.time[2],
             IF iso.offset = "" THEN "naive"
             ELSE IF iso.offset = "+07:00" THEN "config"
             ELSE IF iso.offset = "+00:00" THEN "utc"
             ELSE "local")

\* process_recurring_time(entity)
process_recurring_time(entity) ==
    LET Built(recurrence, rrule_str, occ) ==
            IF rrule_str.exc # "none" THEN Raise(rrule_str.exc)
            ELSE IF occ.exc # "none" THEN Raise(occ.exc)
            ELSE Ok(Update(entity, "recurrence",
                           [type |-> recurrence.type,
                            rrule |-> rrule_str.value,
                            next_occurrences |-> occ.value]))
        Ruled(recurrence, rrule_str) ==
            IF rrule_str.exc # "none" THEN Raise(rrule_str.exc)
            ELSE IF rrule_str.value = None THEN Ok(entity)
            ELSE Built(recurrence, rrule_str,
                       get_next_occurrences(rrule_str.value, DefaultCount))
        Detected(recurrence) ==
            IF recurrence = None THEN Ok(entity)
            ELSE Ruled(recurrence,
                       generate_rrule(recurrence,
                                      FromIsoFormat(entity.normalized_time)))
    IN IF ~HasKey(entity, "normalized_time") THEN Ok(entity)
       ELSE Detected(detect_recurrence(entity.text))

-----------------------------------------------------------------------------
(* The recurrence processor as a state machine: each method is called on   *)
(* inputs of its own, generate_rrule and get_next_occurrences several times *)

RecurIdle ==
    /\ rc_recurrence = None
    /\ rc_anchor = None
    /\ rc_rule_in = ""
    /\ rc_entity = None
    /\ rc_detected = None
    /\ rc_rules = <<>>
    /\ rc_occs = <<>>
    /\ rc_out = None

\* descriptors as detect_recurrence builds them, and one without frequency
Descriptors ==
    {[type |-> RecurringPatterns[k].type, frequency |-> RecurringPatterns[k].freq] :
        k \in 1..Len(RecurringPatterns)}
    \cup {[type |-> RecurringPatterns[k].type, frequency |-> RecurringPatterns[k].freq,
           weekday |-> w] : k \in 1..Len(RecurringPatterns), w \in {"monday", "friday"}}
    \cup {[type |-> "weekly"]}

\* anchors: with the configured zone and without tzinfo
RecurAnchors == {DateTime(2024, 1, 5, 15, 0, "config"),
                 DateTime(2024, 2, 29, 9, 30, "naive")}

\* rule strings for get_next_occurrences
RuleStrings == {"FREQ=WEEKLY", "FREQ=WEEKLY;BYDAY=FR", "FREQ=DAILY"}

\* entity texts: every week, every week on Friday, every day, today, every
\* week and every day on Friday, Friday alone, every month on Monday and
\* Friday
RecurTexts == {
    <<"m", "oox", "i", " ", "t", "u", "aaf", "n", " ", "h", "af", "n", "g", " ",
      "n", "g", "af", "y", " ", "t", "h", "uws", " ", "s", "as", "u">>,
    <<"t", "h", "uws", " ", "s", "as", "u">>,
    <<"h", "af", "n", "g", " ", "t", "h", "as", "n", "g", " ", "t", "h", "uws", " ",
      "s", "as", "u", " ", "t", "h", "uws", " ", "h", "a", "i">>,
    <<"m", "oox", "i", " ", "t", "u", "aaf", "n">>,
    <<"h", "af", "n", "g", " ", "t", "u", "aaf", "n", " ", "t", "h", "uws", " ",
      "s", "as", "u">>,
    <<"H", "af", "n", "g", " ", " ", "n", "g", "af", "y">>,
    <<"h", "oo", "m", " ", "n", "a", "y">> }

\* a TIME entity, resolved against `anchor` or not resolved
RecurEntities ==
    {TimeEntity(t, "TIME") : t \in RecurTexts}
    \cup {Update(Update(TimeEntity(t, "TIME"), "normalized_time", IsoFormat(a)),
                 "timestamp", Timestamp(a)) : t \in RecurTexts, a \in RecurAnchors}

RecurInit ==
    /\ rc_recurrence \in Descriptors
    /\ rc_anchor \in RecurAnchors
    /\ rc_rule_in \in RuleStrings
    /\ rc_entity \in RecurEntities
    /\ rc_detected = None
    /\ rc_rules = <<>>
    /\ rc_occs = <<>>
    /\ rc_out = None

GenerateRrule ==
    /\ Len(rc_rules) < MaxRuns
    /\ rc_rules' = Append(rc_rules, generate_rrule(rc_recurrence, rc_anchor))
    /\ UNCHANGED <<rc_recurrence, rc_anchor, rc_rule_in, rc_entity, rc_detected,
                   rc_occs, rc_out>>
    /\ UNCHANGED notRecurVars

GetNextOccurrences ==
    /\ Len(rc_occs) < MaxRuns
    /\ rc_occs' = Append(rc_occs, get_next_occurrences(rc_rule_in, DefaultCount))
    /\ UNCHANGED <<rc_recurrence, rc_anchor, rc_rule_in, rc_entity, rc_detected,
                   rc_rules, rc_out>>
    /\ UNCHANGED notRecurVars

DetectRecurrence ==
    /\ rc_detected = None
    /\ rc_detected' = Ok(detect_recurrence(rc_entity.text))
    /\ UNCHANGED <<rc_recurrence, rc_anchor, rc_rule_in, rc_entity, rc_rules,
                   rc_occs, rc_out>>
    /\ UNCHANGED notRecurVars

ProcessRecurringTime ==
    /\ rc_out = None
    /\ rc_out' = process_recurring_time(rc_entity)
    /\ UNCHANGED <<rc_recurrence, rc_anchor, rc_rule_in, rc_entity, rc_detected,
                   rc_rules, rc_occs>>
    /\ UNCHANGED notRecurVars

RecurNext ==
    \/ GenerateRrule
    \/ GetNextOccurrences
    \/ DetectRecurrence
    \/ ProcessRecurringTime

-----------------------------------------------------------------------------
(* Python values whose kind decides what an operation on them does         *)

PyList(items) == [kind |-> "list", items |-> items]
PyTuple(items) == [kind |-> "tuple", items |-> items]
PyDict(d) == [kind |-> "dict", d |-> d]
PyFloat == [kind |-> "float"]

\* bool(v) of None, a list or a tuple
Truthy(v) == IF v = None THEN FALSE ELSE Len(v.items) > 0

\* the dicts of a sequence of spans
Dicts(spans) == [i \in 1..Len(spans) |-> PyDict(spans[i])]

-----------------------------------------------------------------------------
(* NERModel.extract_entities as the service calls it                       *)

\* the whole loop of lines 70-103 over the tokens, from index i on
RECURSIVE ScanSingle(_, _, _)
ScanSingle(st, toks, i) ==
    IF i >= Len(toks) THEN st
    ELSE ScanSingle(StepSingle(st, toks[i + 1], i), toks, i + 1)

\* extract_entities(text): the value returned, and self.cache afterwards.
\* `toks` is what the tokenizer and the labeling model give for the text,
\* `fails` is whether one of them raises.
extract_entities(text, cache, toks, fails) ==
    LET Returned(ret) == [ret |-> ret, cache |-> cache \cup {[text |-> text, ret |-> ret]}]
        Scanned(st) == Returned(PyTuple(<<PyList(Dicts(CloseScan(st))), PyFloat>>))
    IN IF \E e \in cache : e.text = text
       THEN [ret |-> (CHOOSE e \in cache : e.text = text).ret, cache |-> cache]
       ELSE IF fails
       THEN [ret |-> PyTuple(<<PyList(<<>>), PyFloat>>), cache |-> cache]
       ELSE Scanned(ScanSingle([entities |-> <<>>, current_entity |-> None], toks, 0))

-----------------------------------------------------------------------------
(* Cache (utils/cache.py)                                                  *)

\* a key without the version component
GenerateKey_NoVersion(version, text) == <<"ner_cache", "", text>>

\* _generate_key(text): the version and the digest of the text; two texts of
\* the model never share a digest
GenerateKey(version, text) == <<"ner_cache", version, text>>

\* json.dumps and json.loads: a tuple is written as an array
RECURSIVE JsonValue(_)
JsonValue(v) ==
    IF v.kind \in {"list", "tuple"}
    THEN PyList([i \in 1..Len(v.items) |-> JsonValue(v.items[i])])
    ELSE v

Dumps(v) == [json |-> JsonValue(v)]
Loads(j) == j.json

\* the exceptions the except clauses of Cache.get and Cache.set name
CacheCaught == {"RedisError", "JSONDecodeError"}

\* Cache.get, lines 44-51: the try block.  redis.get raises RedisError (a
\* TimeoutError is one) while Redis is away.
CacheGetTry(text, store, version, up) ==
    LET key == GenerateKey(version, text)
    IN IF ~up THEN Raise("RedisError")
       ELSE IF \E e \in store : e.key = key
            THEN Ok(Loads((CHOOSE e \in store : e.key = key).value))
            ELSE Ok(None)

\* Cache.get(text) with its except clause (lines 53-55): the outcome of the call
Cache_get(text, store, version, up) ==
    LET Caught(t) == IF t.exc \in CacheCaught THEN Ok(None) ELSE t
    IN Caught(CacheGetTry(text, store, version, up))

\* Cache.get(text): what the caller receives
CacheGet(text, store, version, up) == Cache_get(text, store, version, up).value

\* Cache.set, lines 71-79: the try block; setex answers True
CacheSetTry(text, res, store, version, up) ==
    LET key == GenerateKey(version, text)
    IN IF ~up THEN [exc |-> "RedisError", value |-> None, store |-> store]
       ELSE [exc |-> "none", value |-> TRUE,
             store |-> {e \in store : e.key # key}
                           \cup {[key |-> key, value |-> Dumps(res)]}]

\* Cache.set(text, result) with its except clause (lines 81-83): the outcome
\* of the call and the store afterwards
Cache_set(text, res, store, version, up) ==
    LET Caught(t) == IF t.exc \in CacheCaught
                     THEN [t EXCEPT !.exc = "none", !.value = FALSE]
                     ELSE t
    IN Caught(CacheSetTry(text, res, store, version, up))

\* Cache.set(text, result): the store afterwards
CacheSet(text, res, store, version, up) ==
    Cache_set(text, res, store, version, up).store

\* Cache.invalidate(text): redis.delete answers the number of keys removed
Cache_invalidate(text, store, version, up) ==
    LET key == GenerateKey(version, text)
    IN IF ~up THEN [exc |-> "none", value |-> FALSE, store |-> store]
       ELSE [exc |-> "none", value |-> \E e \in store : e.key = key,
             store |-> {e \in store : e.key # key}]

\* Cache.clear_all(): the keys matching ner_cache:<version>:* are deleted
Cache_clear_all(store, version, up) ==
    IF ~up THEN [exc |-> "none", value |-> FALSE, store |-> store]
    ELSE [exc |-> "none", value |-> TRUE,
          store |-> {e \in store : e.key[2] # version}]

-----------------------------------------------------------------------------
(* RateLimiter (utils/rate_limiter.py)                                     *)

\* int(rate_limit * burst_factor), burst_factor 1.5
BurstLimit == (RequestsPerMinute * 3) \div 2

\* is_allowed, lines 55-86: the try block at second `now`.  The pipeline
\* removes the scores up to now - window, counts the members, adds the member
\* str(now) and renews the expiry; pipe.execute() raises RedisError while
\* Redis is away.
IsAllowedTry(now, zset, zexpire, up) ==
    IF ~up THEN [exc |-> "RedisError", allowed |-> None,
                 zset |-> zset, zexpire |-> zexpire]
    ELSE LET live == IF now >= zexpire THEN {} ELSE zset
             kept == {t \in live : t > now - WindowSize}
             request_count == Cardinality(kept)
         IN [exc |-> "none", allowed |-> request_count <= BurstLimit,
             zset |-> kept \cup {now},
             zexpire |-> now + WindowSize]

\* is_allowed with an except clause that turns the request away
is_allowed_FailClosed(now, zset, zexpire, up) ==
    LET Caught(t) == IF t.exc = "RedisError"
                     THEN [t EXCEPT !.exc = "none", !.allowed = FALSE]
                     ELSE t
    IN Caught(IsAllowedTry(now, zset, zexpire, up))

\* is_allowed(client_id) with its except clause (lines 88-97): the outcome,
\* and the key afterwards
is_allowed(now, zset, zexpire, up) ==
    LET Caught(t) == IF t.exc = "RedisError"
                     THEN [t EXCEPT !.exc = "none", !.allowed = TRUE]
                     ELSE t
    IN Caught(IsAllowedTry(now, zset, zexpire, up))

-----------------------------------------------------------------------------
(* NERService (server/grpc_server.py)                                      *)

\* the servicer context before any abort
NoAbort == [aborted |-> FALSE, code |-> "OK"]

\* an abort that replaces the status of an earlier one
Abort_LastWins(ctx, code) ==
    [ctx |-> [aborted |-> TRUE, code |-> code], exc |-> "AbortError"]

\* await context.abort(code): the first abort fixes the status the caller
\* observes and raises AbortError; a later one raises RuntimeError and leaves
\* the status as it is
Abort(ctx, code) ==
    IF ctx.aborted THEN [ctx |-> ctx, exc |-> "RuntimeError"]
    ELSE [ctx |-> [aborted |-> TRUE, code |-> code], exc |-> "AbortError"]

\* lines 49-54 and 87-91: the loop `for entity in entities` from item k on.
\* entity["type"] of an item that is not a dict raises TypeError.
RECURSIVE RecurLoop(_, _, _, _)
RecurLoop(items, k, processed_entities, calls) ==
    LET Processed(entity, r, called) ==
            IF r.exc # "none"
            THEN [exc |-> r.exc, value |-> processed_entities, calls |-> called]
            ELSE RecurLoop(items, k + 1, Append(processed_entities, PyDict(r.value)),
                           called)
        Body(entity) ==
            IF entity.kind # "dict"
            THEN [exc |-> "TypeError", value |-> processed_entities, calls |-> calls]
            ELSE IF entity.d.type \in {"TIME", "DATE"}
            THEN Processed(entity, process_recurring_time(entity.d),
                           Append(calls, "process_recurring_time"))
            ELSE RecurLoop(items, k + 1, Append(processed_entities, entity),
                           calls)
    IN IF k > Len(items)
       THEN [exc |-> "none", value |-> processed_entities, calls |-> calls]
       ELSE Body(items[k])

ProtoKeys == {"text", "type", "confidence", "start_pos", "end_pos"}

\* the ner_pb2.Entity built from an entity dict
ProtoEntity(d) ==
    [text |-> d.text, type |-> d.type, confidence |-> d.confidence,
     start_pos |-> d.start_pos, end_pos |-> d.end_pos,
     normalized_time |-> IF HasKey(d, "normalized_time")
                         THEN d.normalized_time ELSE None,
     recurrence |-> IF HasKey(d, "recurrence") THEN d.recurrence ELSE None]

\* _create_response(entities)
_create_response(ents) ==
    IF \E i \in 1..Len(ents.items) : ents.items[i].kind # "dict"
    THEN Raise("TypeError")
    ELSE IF \E i \in 1..Len(ents.items) : ~(ProtoKeys \subseteq DOMAIN ents.items[i].d)
    THEN Raise("KeyError")
    ELSE Ok([entities |-> [i \in 1..Len(ents.items) |-> ProtoEntity(ents.items[i].d)]])

\* the texts of the requests: the empty one and two others
ServiceTexts == {<<>>, <<"a">>, <<"a", "b">>}

Tok(text, tag, type, tenths) ==
    [text |-> text, label |-> [tag |-> tag, type |-> type], conf |-> tenths * ConfUnit]

\* what the tokenizer and the labeling model give for a text: the reserved
\* token alone for the empty text, a TIME span for one text, a two-token LOC
\* span for the other
Labeling(text) ==
    IF text = <<>> THEN << Tok(<<"<s>">>, "O", "", 9) >>
    ELSE IF text = <<"a">>
    THEN << Tok(<<"<s>">>, "O", "", 9), Tok(<<"_", "a">>, "B", "TIME", 9) >>
    ELSE << Tok(<<"<s>">>, "O", "", 9), Tok(<<"_", "a">>, "B", "LOC", 9),
            Tok(<<"b">>, "I", "LOC", 3) >>

\* lines 41-57 and 78-95: one text through cache, model, recurrence loop and
\* cache again. `st` carries the cache store, NERModel.cache and the calls.
ProcessText(text, st, fails) ==
    LET Looped(m, loop) ==
            IF loop.exc # "none"
            THEN [exc |-> loop.exc, entities |-> None,
                  st |-> [st EXCEPT !.mcache = m.cache, !.calls = loop.calls]]
            ELSE [exc |-> "none", entities |-> PyList(loop.value),
                  st |-> [store |-> CacheSet(text, PyList(loop.value), st.store,
                                             sv_version, sv_redis_up),
                          mcache |-> m.cache,
                          calls |-> Append(loop.calls, "cache.set")]]
        Extracted(m) ==
            Looped(m, RecurLoop(m.ret.items, 1, <<>>,
                                st.calls \o <<"cache.get", "model.extract_entities">>))
        Got(cached_result) ==
            IF Truthy(cached_result)
            THEN [exc |-> "none", entities |-> cached_result,
                  st |-> [st EXCEPT !.calls = Append(st.calls, "cache.get")]]
            ELSE Extracted(extract_entities(text, st.mcache, Labeling(text), fails))
    IN Got(CacheGet(text, st.store, sv_version, sv_redis_up))

\* the state a handler starts from
HandlerStart == [store |-> sv_store, mcache |-> sv_model_cache, calls |-> <<>>]

\* the except clause of lines 61-63 and 105-107 around the outcome of the try
ExceptClause(t) ==
    IF t.exc = "none" THEN t
    ELSE LET a == Abort(t.ctx, "INTERNAL")
         IN [t EXCEPT !.exc = a.exc, !.ctx = a.ctx]

\* ExtractEntities, lines 33-59: the try block
ExtractEntitiesTry(text, fails) ==
    LET Responded(p, r) ==
            [exc |-> r.exc, ctx |-> NoAbort, response |-> r.value, st |-> p.st]
        Done(p) ==
            IF p.exc # "none"
            THEN [exc |-> p.exc, ctx |-> NoAbort, response |-> None, st |-> p.st]
            ELSE Responded(p, _create_response(p.entities))
    IN IF Len(text) = 0
       THEN [exc |-> Abort(NoAbort, "INVALID_ARGUMENT").exc,
             ctx |-> Abort(NoAbort, "INVALID_ARGUMENT").ctx,
             response |-> None, st |-> HandlerStart]
       ELSE Done(ProcessText(text, HandlerStart, fails))

\* BatchExtractEntities, lines 76-95: the loop over the texts from item k on
RECURSIVE BatchLoop(_, _, _, _, _)
BatchLoop(texts, k, batch_results, st, fails) ==
    LET Done(p) ==
            IF p.exc # "none"
            THEN [exc |-> p.exc, batch_results |-> batch_results, st |-> p.st]
            ELSE BatchLoop(texts, k + 1, Append(batch_results, p.entities),
                           p.st, fails)
    IN IF k > Len(texts)
       THEN [exc |-> "none", batch_results |-> batch_results, st |-> st]
       ELSE Done(ProcessText(texts[k], st, fails))

\* lines 98-103: the responses of the batch, or the first exception
ProtoResults(batch_results) ==
    LET Converted(proto_results) ==
            IF \E i \in 1..Len(proto_results) : proto_results[i].exc # "none"
            THEN Raise(proto_results[CHOOSE i \in 1..Len(proto_results) :
                           /\ proto_results[i].exc # "none"
                           /\ \A j \in 1..(i - 1) : proto_results[j].exc = "none"].exc)
            ELSE Ok([results |-> [i \in 1..Len(proto_results) |->
                                     proto_results[i].value]])
    IN Converted([i \in 1..Len(batch_results) |-> _create_response(batch_results[i])])

\* BatchExtractEntities, lines 67-103: the try block
BatchExtractEntitiesTry(texts, fails) ==
    LET Responded(b, r) ==
            [exc |-> r.exc, ctx |-> NoAbort, response |-> r.value, st |-> b.st]
        Done(b) ==
            IF b.exc # "none"
            THEN [exc |-> b.exc, ctx |-> NoAbort, response |-> None, st |-> b.st]
            ELSE Responded(b, ProtoResults(b.batch_results))
    IN IF Len(texts) = 0
       THEN [exc |-> Abort(NoAbort, "INVALID_ARGUMENT").exc,
             ctx |-> Abort(NoAbort, "INVALID_ARGUMENT").ctx,
             response |-> None, st |-> HandlerStart]
       ELSE Done(BatchLoop(texts, 1, <<>>, HandlerStart, fails))

-----------------------------------------------------------------------------
(* The service as a state machine: requests arrive one at a time (a handler *)
(* never yields to another one: its Redis calls are synchronous), seconds   *)
(* pass, Redis goes away and comes back                                     *)

ServiceIdle ==
    /\ sv_clock = 0
    /\ sv_redis_up = TRUE
    /\ sv_zset = {}
    /\ sv_zexpire = 0
    /\ sv_store = {}
    /\ sv_version = "v1.0"
    /\ sv_model_cache = {}
    /\ sv_request = None
    /\ sv_status = "none"
    /\ sv_response = None
    /\ sv_calls = <<>>
    /\ kv_log = <<>>

ServiceInit ==
    /\ sv_clock = 0
    /\ sv_redis_up = TRUE
    /\ sv_zset = {}
    /\ sv_zexpire = 0
    /\ sv_store = {}
    /\ sv_version = "v1.0"
    /\ sv_model_cache = {}
    /\ sv_request = None
    /\ sv_status = "none"
    /\ sv_response = None
    /\ sv_calls = <<>>
    /\ kv_log = <<>>

\* a wrapper that goes on to the handler after it has aborted a denied request
rate_limit_RunsHandler(req, h) ==
    LET Checked(ra) ==
            /\ sv_zset' = ra.zset
            /\ sv_zexpire' = ra.zexpire
            /\ sv_status' = IF ~ra.allowed
                            THEN Abort(NoAbort, "RESOURCE_EXHAUSTED").ctx.code
                            ELSE h.ctx.code
            /\ sv_response' = h.response
            /\ sv_calls' = <<"is_allowed">> \o h.st.calls
            /\ sv_store' = h.st.store
            /\ sv_model_cache' = h.st.mcache
    IN /\ Checked(is_allowed(sv_clock, sv_zset, sv_zexpire, sv_redis_up))
       /\ sv_request' = req
       /\ UNCHANGED <<sv_clock, sv_redis_up, sv_version, kv_log>>
       /\ UNCHANGED notServiceVars

\* the wrapper of the rate_limit decorator around the handler outcome h
rate_limit(req, h) ==
    LET Checked(ra) ==
            /\ sv_zset' = ra.zset
            /\ sv_zexpire' = ra.zexpire
            /\ IF ~ra.allowed
               THEN /\ sv_status' = Abort(NoAbort, "RESOURCE_EXHAUSTED").ctx.code
                    /\ sv_response' = None
                    /\ sv_calls' = <<"is_allowed">>
                    /\ UNCHANGED <<sv_store, sv_model_cache>>
               ELSE /\ sv_status' = h.ctx.code
                    /\ sv_response' = h.response
                    /\ sv_calls' = <<"is_allowed">> \o h.st.calls
                    /\ sv_store' = h.st.store
                    /\ sv_model_cache' = h.st.mcache
    IN /\ Checked(is_allowed(sv_clock, sv_zset, sv_zexpire, sv_redis_up))
       /\ sv_request' = req
       /\ UNCHANGED <<sv_clock, sv_redis_up, sv_version, kv_log>>
       /\ UNCHANGED notServiceVars

ExtractEntities ==
    \E text \in ServiceTexts, fails \in BOOLEAN :
        rate_limit([method |-> "ExtractEntities", text |-> text],
                   ExceptClause(ExtractEntitiesTry(text, fails)))

BatchExtractEntities ==
    \E texts \in SeqsUpTo(ServiceTexts, MaxBatch),
       fails \in BOOLEAN :
        rate_limit([method |-> "BatchExtractEntities", texts |-> texts],
                   ExceptClause(BatchExtractEntitiesTry(texts, fails)))

\* time.time() moves to the next second
Tick ==
    /\ sv_clock < MaxClock
    /\ sv_clock' = sv_clock + 1
    /\ UNCHANGED <<sv_redis_up, sv_zset, sv_zexpire, sv_store, sv_version,
                   sv_model_cache, sv_request, sv_status, sv_response, sv_calls,
                   kv_log>>
    /\ UNCHANGED notServiceVars

\* Redis becomes unreachable (its calls raise RedisError), or reachable again
RedisDown ==
    /\ sv_redis_up
    /\ sv_redis_up' = FALSE
    /\ UNCHANGED <<sv_clock, sv_zset, sv_zexpire, sv_store, sv_version,
                   sv_model_cache, sv_request, sv_status, sv_response, sv_calls,
                   kv_log>>
    /\ UNCHANGED notServiceVars

RedisUp ==
    /\ ~sv_redis_up
    /\ sv_redis_up' = TRUE
    /\ UNCHANGED <<sv_clock, sv_zset, sv_zexpire, sv_store, sv_version,
                   sv_model_cache, sv_request, sv_status, sv_response, sv_calls,
                   kv_log>>
    /\ UNCHANGED notServiceVars

ServiceNext == ExtractEntities \/ BatchExtractEntities \/ Tick \/ RedisDown \/ RedisUp

-----------------------------------------------------------------------------
(* The rate limiter and the cache called on their own, by one client, while *)
(* seconds pass and Redis goes away and comes back                          *)

\* the text of the direct cache calls, and the results handed to Cache.set
StoreTexts == {<<"a">>}

StoreResults == {PyList(<<>>),
                 PyList(<< PyDict([text |-> <<"a">>, type |-> "TIME"]) >>)}

\* one entry of kv_log
Call(op, text, res, out) ==
    [op |-> op, at |-> sv_clock, up |-> sv_redis_up, version |-> sv_version,
     text |-> text, res |-> res, out |-> out]

\* await rate_limiter.is_allowed(client_id)
CallIsAllowed ==
    LET Logged(ra) ==
            /\ sv_zset' = ra.zset
            /\ sv_zexpire' = ra.zexpire
            /\ kv_log' = Append(kv_log, Call("is_allowed", None, None,
                                             [exc |-> ra.exc, value |-> ra.allowed]))
    IN /\ Len(kv_log) < MaxCalls
       /\ Logged(is_allowed(sv_clock, sv_zset, sv_zexpire, sv_redis_up))
       /\ UNCHANGED <<sv_clock, sv_redis_up, sv_store, sv_version, sv_model_cache,
                      sv_request, sv_status, sv_response, sv_calls>>
       /\ UNCHANGED notServiceVars

\* await cache.get(text)
CallCacheGet ==
    /\ Len(kv_log) < MaxCalls
    /\ \E text \in StoreTexts :
           kv_log' = Append(kv_log, Call("get", text, None,
                               Cache_get(text, sv_store, sv_version, sv_redis_up)))
    /\ UNCHANGED <<sv_clock, sv_redis_up, sv_zset, sv_zexpire, sv_store, sv_version,
                   sv_model_cache, sv_request, sv_status, sv_response, sv_calls>>
    /\ UNCHANGED notServiceVars

\* await cache.set(text, result)
CallCacheSet ==
    LET Logged(text, res, c) ==
            /\ sv_store' = c.store
            /\ kv_log' = Append(kv_log, Call("set", text, res,
                                             [exc |-> c.exc, value |-> c.value]))
    IN /\ Len(kv_log) < MaxCalls
       /\ \E text \in StoreTexts, res \in StoreResults :
              Logged(text, res,
                     Cache_set(text, res, sv_store, sv_version, sv_redis_up))
       /\ UNCHANGED <<sv_clock, sv_redis_up, sv_zset, sv_zexpire, sv_version,
                      sv_model_cache, sv_request, sv_status, sv_response, sv_calls>>
       /\ UNCHANGED notServiceVars

StoreNext ==
    CallIsAllowed \/ CallCacheGet \/ CallCacheSet \/ Tick \/ RedisDown \/ RedisUp

-----------------------------------------------------------------------------
(* The cache called on its own while its version is changed and Redis goes  *)
(* away and comes back                                                      *)

\* the versions update_version is called with
Versions == {"v1.0", "v2.0"}

\* await cache.invalidate(text)
CallInvalidate ==
    LET Logged(text, c) ==
            /\ sv_store' = c.store
            /\ kv_log' = Append(kv_log, Call("invalidate", text, None,
                                             [exc |-> c.exc, value |-> c.value]))
    IN /\ Len(kv_log) < MaxCalls
       /\ \E text \in StoreTexts :
              Logged(text, Cache_invalidate(text, sv_store, sv_version, sv_redis_up))
       /\ UNCHANGED <<sv_clock, sv_redis_up, sv_zset, sv_zexpire, sv_version,
                      sv_model_cache, sv_request, sv_status, sv_response, sv_calls>>
       /\ UNCHANGED notServiceVars

\* await cache.clear_all()
CallClearAll ==
    LET Logged(c) ==
            /\ sv_store' = c.store
            /\ kv_log' = Append(kv_log, Call("clear_all", None, None,
                                             [exc |-> c.exc, value |-> c.value]))
    IN /\ Len(kv_log) < MaxCalls
       /\ Logged(Cache_clear_all(sv_store, sv_version, sv_redis_up))
       /\ UNCHANGED <<sv_clock, sv_redis_up, sv_zset, sv_zexpire, sv_version,
                      sv_model_cache, sv_request, sv_status, sv_response, sv_calls>>
       /\ UNCHANGED notServiceVars

\* cache.update_version(new_version)
UpdateVersion ==
    /\ \E new_version \in Versions \ {sv_version} : sv_version' = new_version
    /\ UNCHANGED <<sv_clock, sv_redis_up, sv_zset, sv_zexpire, sv_store,
                   sv_model_cache, sv_request, sv_status, sv_response, sv_calls,
                   kv_log>>
    /\ UNCHANGED notServiceVars

CacheNext ==
    \/ CallCacheGet
    \/ CallCacheSet
    \/ CallInvalidate
    \/ CallClearAll
    \/ UpdateVersion
    \/ RedisDown
    \/ RedisUp

-----------------------------------------------------------------------------
(* Specifications *)

InitDecode == DecodeInit /\ CleanIdle /\ TimeIdle /\ ServiceIdle /\ RecurIdle

SpecDecode == InitDecode /\ [][DecodeNext]_vars

InitClean == CleanInit /\ DecodeIdle /\ TimeIdle /\ ServiceIdle /\ RecurIdle

SpecClean == InitClean /\ [][CleanNext]_vars

InitTime == TimeInit /\ DecodeIdle /\ CleanIdle /\ ServiceIdle /\ RecurIdle

SpecTime == InitTime /\ [][TimeNext]_vars

InitService == ServiceInit /\ DecodeIdle /\ CleanIdle /\ TimeIdle /\ RecurIdle

SpecService == InitService /\ [][ServiceNext]_vars

InitRecur == RecurInit /\ DecodeIdle /\ CleanIdle /\ TimeIdle /\ ServiceIdle

SpecRecur == InitRecur /\ [][RecurNext]_vars

InitStore == ServiceInit /\ DecodeIdle /\ CleanIdle /\ TimeIdle /\ RecurIdle

SpecStore == InitStore /\ [][StoreNext]_vars

InitCache == ServiceInit /\ DecodeIdle /\ CleanIdle /\ TimeIdle /\ RecurIdle

SpecCache == InitCache /\ [][CacheNext]_vars

-----------------------------------------------------------------------------
(* Claims about the tag decoder (checked under SpecDecode)                 *)

\* the token at Python index i
TokenAt(i) == tokens[i + 1]

\* the spans the decoder has emitted (result is empty until it returns)
EmittedSpans == Range(entities) \cup Range(result)

\* the spans the scan holds: the emitted ones and the open one
HeldSpans ==
    EmittedSpans \cup (IF current_entity = None THEN {} ELSE {current_entity})

\* C1: every span the decoder holds or has emitted has start_pos <= end_pos,
\* lies inside the stream read so far, and carries the type of the B- token
\* at its start_pos: no later token changed it.
C1_SpanShape ==
    \A e \in HeldSpans :
        /\ 0 <= e.start_pos
        /\ e.start_pos <= e.end_pos
        /\ e.end_pos < Len(tokens)
        /\ TokenAt(e.start_pos).label = [tag |-> "B", type |-> e.type]

\* a span of several tokens was emitted by _process_entities, before cleaning,
\* after a token of the other type was read
C1_Witness ==
    /\ path = "batch" /\ dpc = "closed"
    /\ \E e \in Range(entities) :
         /\ e.start_pos < e.end_pos
         /\ \E j \in 1..Len(tokens) :
              j - 1 > e.start_pos /\ tokens[j].label.tag = "I"
              /\ tokens[j].label.type # e.type

\* the token read by the step, if the step read one
ReadsToken == Len(tokens') = Len(tokens) + 1
LastRead == tokens'[Len(tokens')]

\* C2: a step that reads an I-<T> token while no span is open, or while the
\* open span has another type, leaves the emitted spans and the open span
\* (text, type, confidence, start_pos, end_pos) exactly as they were.
C2_OrphanInsideIsInert ==
    [][ (/\ ReadsToken
         /\ LastRead.label.tag = "I"
         /\ (current_entity = None \/ current_entity.type # LastRead.label.type))
        => (entities' = entities /\ current_entity' = current_entity) ]_vars

\* an I- token of another type was just read while a span was open, and an
\* I- token was read before any span was opened
C2_Witness ==
    /\ Len(tokens) = 3
    /\ tokens[1].label.tag = "I"
    /\ tokens[2].label.tag = "B"
    /\ tokens[3].label.tag = "I" /\ tokens[3].label.type # tokens[2].label.type
    /\ current_entity # None
    /\ current_entity.end_pos = 1
    /\ entities = <<>>

\* str.join over a list of texts with sep
RECURSIVE Join(_, _)
Join(texts, sep) ==
    IF texts = <<>> THEN <<>>
    ELSE IF Len(texts) = 1 THEN texts[1]
         ELSE texts[1] \o sep \o Join(Tail(texts), sep)

\* the stream read is O* B-T (I-T)^k, without reserved tokens: the index of B
IsRunFrom(i) ==
    /\ i \in 0..(Len(tokens) - 1)
    /\ \A j \in 0..(Len(tokens) - 1) :
         /\ ~IsSpecial(TokenAt(j))
         /\ j < i => TokenAt(j).label = OLabel
         /\ j = i => TokenAt(j).label.tag = "B"
         /\ j > i => TokenAt(j).label = [tag |-> "I", type |-> TokenAt(i).label.type]

\* C3 (as claimed): a stream B-T (I-T)^k read from index i decodes to exactly
\* one span of type T over i..i+k whose text is the k+1 token texts joined by
\* single spaces (the token texts as given, or with the word-start mark
\* removed), on the single-text path and on the batch path.
C3_RunJoinedBySpaces ==
    \A i \in 0..MaxLen :
        (/\ IsRunFrom(i)
         /\ \/ (path = "single" /\ dpc = "done")
            \/ (path = "batch" /\ dpc = "closed"))
        => /\ Len(entities) = 1
           /\ entities[1].type = TokenAt(i).label.type
           /\ entities[1].start_pos = i
           /\ entities[1].end_pos = Len(tokens) - 1
           /\ LET given == [j \in 1..(Len(tokens) - i) |-> tokens[i + j].text]
                  bare == [j \in 1..(Len(tokens) - i) |->
                              RemoveChar(tokens[i + j].text, "_")]
              IN entities[1].text \in {Join(given, <<" ">>), Join(bare, <<" ">>)}

\* C4 (as claimed): no span the decoder emits has a reserved token inside its
\* start_pos..end_pos range or inside its text, on either path.
C4_NoReservedTokenInSpan ==
    \A e \in EmittedSpans :
        /\ \A j \in e.start_pos..e.end_pos : ~IsSpecial(TokenAt(j))
        /\ \A sp \in SpecialTokens : sp[1] \notin Range(e.text)

\* the whole loop of _process_entities (lines 187-205) over the tokens, from
\* index i on
RECURSIVE ScanBatch(_, _, _)
ScanBatch(st, toks, i) ==
    IF i >= Len(toks) THEN st
    ELSE ScanBatch(StepBatch(st, toks[i + 1], i), toks, i + 1)

\* the scan before its first token
ScanStart == [entities |-> <<>>, current_entity |-> None]

\* the same span: the same index range
SameSpan(a, b) == a.start_pos = b.start_pos /\ a.end_pos = b.end_pos

\* C21: for the token stream read so far, a span that extract_entities
\* produces and the span over the same index range that _process_entities
\* produces before cleaning carry the same confidence: both paths merge the
\* token confidences by one policy.
C21_SameMergePolicy ==
    \A a \in Range(CloseScan(ScanSingle(ScanStart, tokens, 0))),
       b \in Range(CloseScan(ScanBatch(ScanStart, tokens, 0))) :
        SameSpan(a, b) => a.confidence = b.confidence

\* C22: for every emitted span of type T the token at start_pos is labelled
\* B-T and every token at an index in (start_pos, end_pos] is labelled I-T.
C22_ContiguousRun ==
    \A e \in EmittedSpans :
        /\ TokenAt(e.start_pos).label = [tag |-> "B", type |-> e.type]
        /\ \A j \in (e.start_pos + 1)..e.end_pos :
               TokenAt(j).label = [tag |-> "I", type |-> e.type]

-----------------------------------------------------------------------------
(* Claims about the entity cleaner (checked under SpecClean)               *)

\* the text holds the marker "##" somewhere
ContainsMarker(t) ==
    \E i \in 1..(Len(t) - Len(Marker) + 1) : SubSeq(t, i, i + Len(Marker) - 1) = Marker

\* C5 (as claimed): every entity _clean_entities returns has confidence >= 0.5
\* and a text that is non-empty, has no surrounding whitespace and holds no
\* residual subword marker.
C5_CleanedEntityShape ==
    cpc \in {"once", "twice"} =>
        \A e \in Range(cleaned1) :
            /\ e.confidence >= Threshold
            /\ e.text # <<>>
            /\ Strip(e.text) = e.text
            /\ ~ContainsMarker(e.text)

\* C6 (as claimed): cleaning the cleaner's own output returns it unchanged.
C6_CleanerIdempotent ==
    cpc = "twice" => cleaned2 = cleaned1

\* the index in the caller's list of the span a returned entity came from
\* (the spans of a list are numbered by start_pos)
InputIndex(e) == e.start_pos + 1

\* C26: what _clean_entities returns is an order-preserving subsequence of
\* its input: every returned entity is one span of the input list (the dict
\* as the call left it), no input span is returned twice and none is merged
\* with another, and the returned entities are in the order of the input.
C26_OrderPreservingSubsequence ==
    cpc = "once" =>
        /\ Len(cleaned1) <= Len(raw)
        /\ \A i \in 1..Len(cleaned1) :
               /\ InputIndex(cleaned1[i]) \in 1..Len(raw)
               /\ cleaned1[i] = raw[InputIndex(cleaned1[i])]
        /\ \A i, j \in 1..Len(cleaned1) :
               i < j => InputIndex(cleaned1[i]) < InputIndex(cleaned1[j])

\* of three spans the middle one was dropped and the outer two were returned
C26_Witness ==
    /\ cpc = "once"
    /\ Len(raw) = 3
    /\ Len(cleaned1) = 2
    /\ InputIndex(cleaned1[1]) = 1
    /\ InputIndex(cleaned1[2]) = 3

-----------------------------------------------------------------------------
(* Claims about temporal resolution (checked under SpecTime)               *)

\* C9 (as claimed): neither resolver raises, whatever the text and the
\* reference date; an entity that process_time_entity could not resolve comes
\* back as it was given, without normalized_time, timestamp or recurrence.
C9_ResolutionNeverRaises ==
    /\ tm_pc = "done" =>
         /\ tm_out.exc = "none"
         /\ \/ tm_out.value = tm_given
            \/ (tm_given.type \in {"TIME", "DATE"}
                /\ HasKey(tm_out.value, "normalized_time")
                /\ HasKey(tm_out.value, "timestamp"))
         /\ ~HasKey(tm_out.value, "recurrence")
    /\ vn_pc = "done" => vn_out.exc = "none"

\* C10: the text D/M/YYYY of a valid date with a four-digit year, resolved as
\* a DATE entity, gets a normalized_time whose year, month and day are those
\* of the date, whatever the reference instant.
C10_AbsoluteDateRoundTrip ==
    (/\ tm_pc = "done"
     /\ tm_src # None
     /\ tm_given.type = "DATE"
     /\ ValidDate(tm_src.year, tm_src.month, tm_src.day)
     /\ tm_src.year \in 1000..9999)
    => /\ tm_out.exc = "none"
       /\ HasKey(tm_out.value, "normalized_time")
       /\ tm_out.value.normalized_time.date = <<tm_src.year, tm_src.month, tm_src.day>>

\* 29/2/2024 was resolved on a 31st of a year that is no leap year
C10_Witness ==
    /\ tm_pc = "done"
    /\ tm_src = [day |-> 29, month |-> 2, year |-> 2024]
    /\ tm_given.type = "DATE"
    /\ tm_now.day = 31 /\ tm_now.year = 2023
    /\ tm_out.exc = "none"
    /\ HasKey(tm_out.value, "normalized_time")
    /\ tm_out.value.normalized_time.date = <<2024, 2, 29>>

\* dt advanced by one calendar month: the following month, the year rolling
\* over after December, the day kept (the last day of a shorter month)
NextCalendarMonth(dt) ==
    LET y == IF dt.month = 12 THEN dt.year + 1 ELSE dt.year
        m == IF dt.month = 12 THEN 1 ELSE dt.month + 1
    IN [dt EXCEPT !.year = y, !.month = m, !.day = Min(dt.day, DaysInMonth(y, m))]

\* the date <<year, month, day>> of a datetime
DateOf(dt) == <<dt.year, dt.month, dt.day>>

\* C11 (as claimed): a 'next month' keyword resolves to the reference instant
\* advanced by one calendar month, for every reference date, in both resolvers.
C11_NextMonthIsCalendarMonth ==
    tm_given.text \in KwNextMonth =>
        /\ (tm_pc = "done" /\ tm_given.type \in {"TIME", "DATE"}) =>
               /\ tm_out.exc = "none"
               /\ HasKey(tm_out.value, "normalized_time")
               /\ tm_out.value.normalized_time.date = DateOf(NextCalendarMonth(tm_now))
        /\ vn_pc = "done" =>
               /\ vn_out.exc = "none"
               /\ DateOf(vn_out.value) = DateOf(NextCalendarMonth(tm_now))

\* C12 (as claimed): every instant temporal resolution produces is expressed
\* in the configured timezone, and none is in the platform's default zone
\* (a datetime without tzinfo, or one with tzlocal)
C12_ConfiguredTimezone ==
    /\ (tm_pc = "done" /\ tm_out.exc = "none" /\ HasKey(tm_out.value, "normalized_time")) =>
           tm_out.value.normalized_time.offset = UtcOffset("config")
    /\ (vn_pc = "done" /\ vn_out.exc = "none" /\ vn_out.value # None) =>
           vn_out.value.tzinfo = "config"

\* the keyword classes in the order the chain tries them
KeywordClasses == <<KwToday, KwTomorrow, KwNextWeek, KwNextMonth>>

\* the first keyword class with a keyword in the text, 0 when there is none
FirstKeywordClass(text) ==
    IF \E k \in 1..Len(KeywordClasses) : SearchAny(KeywordClasses[k], text)
    THEN CHOOSE k \in 1..Len(KeywordClasses) :
             /\ SearchAny(KeywordClasses[k], text)
             /\ \A j \in 1..(k - 1) : ~SearchAny(KeywordClasses[j], text)
    ELSE 0

\* the position of the leftmost clock time of the text, from p on
RECURSIVE ClockPos(_, _)
ClockPos(t, p) ==
    IF p > Len(t) THEN 0
    ELSE IF DayTimeAt(t, p).matched THEN p
         ELSE ClockPos(t, p + 1)

\* the clock time of the text, alone
ClockText(t) ==
    LET p == ClockPos(t, 1)
        match == DayTimeAt(t, p)
    IN SubSeq(t, p, p + Len(match.g1) + Len(match.g2))

\* what a resolution gave: the exception, and normalized_time when it is there
Resolution(out) ==
    [exc |-> out.exc,
     normalized_time |-> IF out.exc = "none" /\ HasKey(out.value, "normalized_time")
                         THEN out.value.normalized_time ELSE None]

\* the resolution of an entity of the given entity's type whose text is `text`
\* alone, at the same reference instant, the fuzzy parser refusing
ResolvedAlone(text) ==
    Resolution(process_time_entity(TimeEntity(text, tm_given.type), tm_now,
                                   "ValueError"))

\* C24: the patterns are tried in the order keyword (today, tomorrow, next
\* week, next month), clock time, numeric date, fuzzy parse, and the first
\* that matches alone determines normalized_time: a text with a keyword
\* resolves as the keyword of the first such class alone; a text without a
\* keyword and with a clock time resolves as that clock time alone, whether
\* or not it also holds a numeric date; a text whose first match is a numeric
\* date resolves without the fuzzy parser.
C24_FirstPatternWins ==
    (tm_pc = "done" /\ tm_given.type \in {"TIME", "DATE"}) =>
        LET text == Lower(tm_given.text)
            k == FirstKeywordClass(text)
        IN IF k # 0
           THEN \A kw \in KeywordClasses[k] :
                    Contains(text, kw) => Resolution(tm_out) = ResolvedAlone(kw)
           ELSE IF SearchDayTime(text, 1).matched
           THEN Resolution(tm_out) = ResolvedAlone(ClockText(text))
           ELSE SearchDateTime(text, 1).matched
                    => Resolution(tm_out) = ResolvedAlone(text)

\* "14h30 ngay mai" was resolved to the next day at the reference instant's
\* own time of day
C24_Witness ==
    /\ tm_pc = "done"
    /\ tm_given.type = "TIME"
    /\ SearchDayTime(Lower(tm_given.text), 1).matched
    /\ FirstKeywordClass(Lower(tm_given.text)) = 2
    /\ tm_out.exc = "none"
    /\ HasKey(tm_out.value, "normalized_time")
    /\ tm_out.value.normalized_time = IsoFormat(AddDays(tm_now, 1))
    /\ tm_now.hour # 14

\* C27: after process_time_entity returns, the entity value that was passed
\* in is equal to what it was before the call: a resolved result is a new
\* value and the caller's entity is left alone.
C27_InputNotMutated ==
    tm_pc = "done" => tm_entity = tm_given

-----------------------------------------------------------------------------
(* Claims about the recurrence processor (checked under SpecRecur)         *)

\* the two-letter code of a weekday
WeekdayCode(w) ==
    CASE w = "monday" -> "MO" [] w = "tuesday" -> "TU" [] w = "wednesday" -> "WE"
      [] w = "thursday" -> "TH" [] w = "friday" -> "FR" [] w = "saturday" -> "SA"
      [] OTHER -> "SU"

\* the rule string of a descriptor: FREQ=<F>, then ;BYDAY=<code> when it has a
\* weekday, and nothing of the anchor
ClaimedRule(recurrence) ==
    "FREQ=" \o recurrence.frequency
        \o (IF HasKey(recurrence, "weekday")
            THEN ";BYDAY=" \o WeekdayCode(recurrence.weekday) ELSE "")

\* C13 (as claimed): generate_rrule returns the rule string FREQ=<F>, followed
\* by BYDAY=<code of W> exactly when the descriptor has a weekday, without the
\* anchor (weekly on Friday: FREQ=WEEKLY;BYDAY=FR).
C13_RuleString ==
    \A i \in 1..Len(rc_rules) :
        HasKey(rc_recurrence, "frequency") =>
            /\ rc_rules[i].exc = "none"
            /\ rc_rules[i].value = ClaimedRule(rc_recurrence)

\* a is before b (both with the same tzinfo)
Earlier(a, b) ==
    LET ka == <<a.year, a.month, a.day, a.hour, a.minute>>
        kb == <<b.year, b.month, b.day, b.hour, b.minute>>
    IN \E i \in 1..5 : ka[i] < kb[i] /\ \A j \in 1..(i - 1) : ka[j] = kb[j]

\* N instants, strictly increasing
IncreasingInstants(occ, n) ==
    /\ Len(occ) = n
    /\ \A i \in 1..(Len(occ) - 1) : Earlier(occ[i], occ[i + 1])

\* the entity has a normalized_time and its text has a recurrence pattern
RecurringEntity(entity) ==
    HasKey(entity, "normalized_time") /\ detect_recurrence(entity.text) # None

\* C14 (as claimed): the occurrences enumerated for a rule, and those attached
\* to an entity with a recurrence, are exactly N = 5 instants, strictly
\* increasing and none before the anchor.
C14_NextOccurrences ==
    /\ \A i \in 1..Len(rc_occs) :
           /\ rc_occs[i].exc = "none"
           /\ IncreasingInstants(rc_occs[i].value, DefaultCount)
    /\ (rc_out # None /\ RecurringEntity(rc_entity)) =>
           /\ rc_out.exc = "none"
           /\ HasKey(rc_out.value, "recurrence")
           /\ IncreasingInstants(rc_out.value.recurrence.next_occurrences, DefaultCount)
           /\ ~Earlier(FromIsoFormat(rc_out.value.recurrence.next_occurrences[1]),
                       FromIsoFormat(rc_entity.normalized_time))

\* C15 (as claimed): process_recurring_time raises nothing; when generation or
\* enumeration fails the entity comes back as given, without recurrence, and a
\* recurrence that is attached has a rule and all its occurrences.
C15_NoPartialRecurrence ==
    rc_out # None =>
        /\ rc_out.exc = "none"
        /\ \/ rc_out.value = rc_entity /\ ~HasKey(rc_out.value, "recurrence")
           \/ /\ HasKey(rc_out.value, "recurrence")
              /\ rc_out.value.recurrence.rrule # ""
              /\ Len(rc_out.value.recurrence.next_occurrences) = DefaultCount

\* C16 (as claimed): the runs of generate_rrule on one (descriptor, anchor)
\* pair yield one and the same rule string, and the runs of
\* get_next_occurrences the same occurrences.
C16_SameRuleEveryRun ==
    /\ (Len(rc_rules) = MaxRuns /\ HasKey(rc_recurrence, "frequency")) =>
           \A i, j \in 1..Len(rc_rules) :
               rc_rules[i].exc = "none" /\ rc_rules[i].value = rc_rules[j].value
    /\ Len(rc_occs) = MaxRuns =>
           \A i, j \in 1..Len(rc_occs) :
               rc_occs[i].exc = "none" /\ rc_occs[i].value = rc_occs[j].value

\* the frequencies and the weekdays whose patterns match the text
MatchingFrequencies(t) ==
    {k \in 1..Len(RecurringPatterns) :
        SearchSpaced(Every, RecurringPatterns[k].unit, t)}

MatchingWeekdays(t) == {w \in 1..Len(WeekdayPatterns) : WeekdayMatches(w, t)}

\* C25: detect_recurrence returns the first frequency, in the order daily,
\* weekly, monthly, yearly, whose pattern matches the text; it returns None
\* when no frequency matches, also for a text that names a weekday; and when
\* a frequency matches, the descriptor carries a weekday exactly when a
\* weekday pattern matches, one of those that match, whichever the frequency.
C25_FirstFrequencyWins ==
    rc_detected # None =>
        LET t == Lower(rc_entity.text)
            d == rc_detected.value
            freqs == MatchingFrequencies(t)
            days == MatchingWeekdays(t)
        IN /\ rc_detected.exc = "none"
           /\ IF freqs = {} THEN d = None
              ELSE /\ d # None
                   /\ \E k \in freqs :
                          /\ \A j \in freqs : k <= j
                          /\ d.type = RecurringPatterns[k].type
                          /\ d.frequency = RecurringPatterns[k].freq
                   /\ HasKey(d, "weekday") <=> days # {}
                   /\ HasKey(d, "weekday") =>
                          \E w \in days : d.weekday = WeekdayPatterns[w].weekday

\* a text with the patterns of two frequencies, the later one of the table
\* first in the text, and a weekday, was detected as daily with the weekday
C25_Witness ==
    /\ rc_detected # None
    /\ MatchingFrequencies(Lower(rc_entity.text)) = {1, 2}
    /\ rc_detected.value # None
    /\ rc_detected.value.type = "daily"
    /\ HasKey(rc_detected.value, "weekday")
    /\ rc_detected.value.weekday = "friday"

-----------------------------------------------------------------------------
(* Claims about the service (checked under SpecService)                    *)

\* the request has completed after calling the labeling model: a cache miss
\* of an admitted request
MissedCache == sv_request # None /\ "model.extract_entities" \in Range(sv_calls)

\* C7: a request that misses the cache answers with entities that passed the
\* stages in order: the cleaner right after the decoder, and the temporal
\* resolver right before every recurrence check
C7_StagesInOrder ==
    MissedCache =>
        /\ sv_response # None
        /\ \A i \in 1..Len(sv_calls) :
               sv_calls[i] = "model.extract_entities" =>
                   i < Len(sv_calls) /\ sv_calls[i + 1] = "_clean_entities"
        /\ \A j \in 1..Len(sv_calls) :
               sv_calls[j] = "process_recurring_time" =>
                   j > 1 /\ sv_calls[j - 1] = "process_time_entity"

\* the request carried a text, or a list with at least one text
NonEmptyInput ==
    /\ sv_request # None
    /\ IF sv_request.method = "ExtractEntities"
       THEN Len(sv_request.text) > 0
       ELSE Len(sv_request.texts) > 0

\* C8: a request with non-empty input that the rate limiter admitted
\* completes with a result; its caller never observes INTERNAL
C8_NeverInternal ==
    (NonEmptyInput /\ sv_status # "RESOURCE_EXHAUSTED") =>
        (sv_status = "OK" /\ sv_response # None)

\* the step is the arrival of a request
RequestStep == sv_request' # None /\ UNCHANGED <<sv_clock, sv_redis_up>>

\* the cache holds an entry for the text under the current version
Cached(store, text) == \E e \in store : e.key = GenerateKey(sv_version, text)

\* C19: an ExtractEntities request for a text t that reads the cache while
\* Redis answers is served from the cache without the labeling model when t
\* is cached; when it is not, the request completes and leaves t's entities
\* in the cache, so that later requests for t are served from it.
C19_ReadBeforeWrittenAfter ==
    [][(/\ RequestStep
        /\ sv_redis_up
        /\ sv_request'.method = "ExtractEntities"
        /\ "cache.get" \in Range(sv_calls'))
          => /\ sv_status' = "OK"
             /\ IF Cached(sv_store, sv_request'.text)
                THEN "model.extract_entities" \notin Range(sv_calls')
                ELSE Cached(sv_store', sv_request'.text)]_vars

\* the request carried the empty text, or an empty list of texts
EmptyInput(req) ==
    /\ req # None
    /\ IF req.method = "ExtractEntities"
       THEN Len(req.text) = 0
       ELSE Len(req.texts) = 0

\* C20: a request with empty text (ExtractEntities) or an empty texts list
\* (BatchExtractEntities) that the rate limiter admitted is rejected before
\* the core runs: its caller observes INVALID_ARGUMENT and gets no response,
\* the request calls neither the cache nor the labeling model, and the cache
\* and the model's memo stay as they were.
C20_EmptyInputRejected ==
    [][(/\ RequestStep
        /\ EmptyInput(sv_request')
        /\ sv_status' # "RESOURCE_EXHAUSTED")
          => /\ sv_status' = "INVALID_ARGUMENT"
             /\ sv_response' = None
             /\ sv_calls' = <<"is_allowed">>
             /\ UNCHANGED <<sv_store, sv_model_cache>>]_vars

\* an empty request was rejected after the labeling model had run for an
\* earlier request
C20_Witness ==
    /\ EmptyInput(sv_request)
    /\ sv_status = "INVALID_ARGUMENT"
    /\ sv_calls = <<"is_allowed">>
    /\ sv_model_cache # {}

\* is_allowed denies the request that arrives in this state
Denies == ~is_allowed(sv_clock, sv_zset, sv_zexpire, sv_redis_up).allowed

\* C29: a request that is_allowed denies ends with RESOURCE_EXHAUSTED and
\* without a response, and the handler is not run for it: the request makes no
\* cache read, no model call and no cache write, and the cache and the
\* model's memo stay as they were.
C29_DeniedRequestSkipsHandler ==
    [][(RequestStep /\ Denies)
          => /\ sv_status' = "RESOURCE_EXHAUSTED"
             /\ sv_response' = None
             /\ sv_calls' = <<"is_allowed">>
             /\ UNCHANGED <<sv_store, sv_model_cache>>]_vars

\* a request with a text was denied after the model had run for an earlier one
C29_Witness ==
    /\ NonEmptyInput
    /\ sv_status = "RESOURCE_EXHAUSTED"
    /\ sv_calls = <<"is_allowed">>
    /\ sv_model_cache # {}
    /\ Cardinality(sv_zset) > BurstLimit + 1

-----------------------------------------------------------------------------
(* Claims about the rate limiter and the cache (checked under SpecStore)    *)

\* the calls of is_allowed among the first i calls that fall into the rolling
\* window ending at call i, call i included
SentInWindow(i) ==
    Cardinality({j \in 1..i : /\ kv_log[j].op = "is_allowed"
                              /\ kv_log[j].at > kv_log[i].at - WindowSize})

\* Redis answered every call up to call i
RedisUpUntil(i) == \A j \in 1..i : kv_log[j].up

\* C17: while Redis answers, is_allowed admits the request that is the k-th
\* of the caller's requests within the rolling window exactly when k is at
\* most the burst limit int(requests_per_minute * 1.5): the request number
\* burst limit is admitted and the next one is rejected, however the requests
\* are spaced inside the window.
C17_BurstLimit ==
    \A i \in 1..Len(kv_log) :
        (kv_log[i].op = "is_allowed" /\ RedisUpUntil(i))
            => (kv_log[i].out.value <=> SentInWindow(i) <= BurstLimit)

\* call i was made while Redis was away
FailedCall(i, op) == kv_log[i].op = op /\ ~kv_log[i].up

\* C18: a call made while Redis raises RedisError (a timeout included) does
\* not raise: is_allowed returns True, Cache.get returns None and Cache.set
\* returns False.
C18_StoreFailureNeverRaises ==
    \A i \in 1..Len(kv_log) :
        ~kv_log[i].up =>
            /\ kv_log[i].out.exc = "none"
            /\ kv_log[i].op = "is_allowed" => kv_log[i].out.value = TRUE
            /\ kv_log[i].op = "get" => kv_log[i].out.value = None
            /\ kv_log[i].op = "set" => kv_log[i].out.value = FALSE

\* each of the three was called while Redis was away, Cache.get for a text
\* that had been cached before
C18_Witness ==
    \E i, j, k \in 1..Len(kv_log) :
        /\ FailedCall(i, "is_allowed")
        /\ FailedCall(j, "get")
        /\ FailedCall(k, "set")
        /\ \E e \in sv_store : e.key = GenerateKey(sv_version, kv_log[j].text)

\* the calls of is_allowed among the first i calls that were admitted and
\* fall into the rolling window ending at call i
AdmittedInWindow(i) ==
    Cardinality({j \in 1..i : /\ kv_log[j].op = "is_allowed"
                              /\ kv_log[j].out.value = TRUE
                              /\ kv_log[j].at > kv_log[i].at - WindowSize})

\* C23: the pipeline of one is_allowed call takes effect as one unit, the
\* calls of one caller take effect one after the other in some order, and
\* while Redis answers the number of calls admitted within one window never
\* exceeds the burst limit.
C23_AdmittedWithinLimit ==
    \A i \in 1..Len(kv_log) :
        (kv_log[i].op = "is_allowed" /\ RedisUpUntil(i))
            => AdmittedInWindow(i) <= BurstLimit

\* the members of the caller's sorted set a call at this second would count:
\* the key is gone once it has expired, and the call first removes the scores
\* up to now - window
CountedNow ==
    {t \in (IF sv_clock >= sv_zexpire THEN {} ELSE sv_zset) :
        t > sv_clock - WindowSize}

\* the caller's calls of is_allowed within the last window seconds
RequestsInWindow ==
    {j \in 1..Len(kv_log) : /\ kv_log[j].op = "is_allowed"
                            /\ kv_log[j].at > sv_clock - WindowSize}

\* C30: while Redis answers, the sorted set of the caller holds one entry for
\* each request the caller made within the last window seconds, so the count
\* the next call reads is the number of those requests, requests made within
\* the same second included.
C30_OneEntryPerRequest ==
    (sv_redis_up /\ RedisUpUntil(Len(kv_log)))
        => Cardinality(CountedNow) = Cardinality(RequestsInWindow)

-----------------------------------------------------------------------------
(* Claims about the cache and its version (checked under SpecCache)         *)

\* call j stored, under the version of call i and for its text, the value
\* that call i received
StoredFor(j, i) ==
    /\ kv_log[j].op = "set"
    /\ kv_log[j].out.value = TRUE
    /\ kv_log[j].text = kv_log[i].text
    /\ kv_log[j].version = kv_log[i].version
    /\ Loads(Dumps(kv_log[j].res)) = kv_log[i].out.value

\* C28: whatever Cache.get returns was stored by a Cache.set under the
\* version the cache has at the time of the get: a value stored under a
\* version v is not returned once update_version has set another version,
\* for any text and any sequence of set, get, invalidate and clear_all.
C28_VersionIsolation ==
    \A i \in 1..Len(kv_log) :
        (kv_log[i].op = "get" /\ kv_log[i].out.value # None)
            => \E j \in 1..(i - 1) : StoredFor(j, i)

\* a text stored under one version was looked up under the other while
\* Redis answered, and was not found though its entry was still in the store
C28_Witness ==
    \E i \in 1..Len(kv_log), j \in 1..Len(kv_log) :
        /\ j < i
        /\ kv_log[j].op = "set" /\ kv_log[j].out.value = TRUE
        /\ kv_log[i].op = "get" /\ kv_log[i].up
        /\ kv_log[i].text = kv_log[j].text
        /\ kv_log[i].version # kv_log[j].version
        /\ kv_log[i].out.value = None
        /\ \E e \in sv_store : e.key = GenerateKey(kv_log[j].version, kv_log[j].text)

=============================================================================
